---- MODULE Spec2Model ----
(***************************************************************************)
(* Model of the doyrix structural parsing engine (api-python/utils):       *)
(* anchor detection, section slicing, the Item 7/7A/8 rescue pass and the  *)
(* parse orchestrator parse_pdf_with_citations with its extractor stages.  *)
(*                                                                         *)
(* Character strings that the code inspects (titles, item codes, paths)    *)
(* are sequences of one-character strings.  A page text is a sequence of   *)
(* lines joined by "\n"; each line is one of the fixed lines of Lines, and *)
(* what the code's regular expressions find on a line is tabulated below.  *)
(***************************************************************************)
EXTENDS Integers, Sequences, FiniteSets, TLC

\* ------------------------------------------------------------------ bounds
MaxPages == 2      \* pages of an input document
MaxAnchors == 2    \* anchors of an anchor list handed to the slicer
MaxFaults == 1     \* stages that raise during one parse
MaxClock == 1      \* clock ticks between two parses
MaxSections == 201 \* anchors of a document parsed with a progress callback
MaxDocs == 2       \* documents uploaded to app.py
MaxRequests == 3   \* requests served by app.py

\* ----------------------------------------------------------------- strings
\* A character is a one-character string, or one of the names below for a
\* character outside ASCII (and for the controls that have no escape).
\* White space, str.isspace(): what str.strip() removes and \s matches.
\* "VT" is U+000B, "FS" "GS" "RS" "US" are U+001C .. U+001F, "NEL" is
\* U+0085, "NBSP" the no-break, figure, thin and narrow no-break spaces
\* (U+00A0, U+2007, U+2009, U+202F), "OGHAM" U+1680, "ENQUAD" "EMQUAD" "ENSP"
\* "EMSP" "3EMSP" "4EMSP" "6EMSP" U+2000 .. U+2006, "PUNCSP" U+2008, "HAIRSP"
\* U+200A, "LS" U+2028, "PS" U+2029, "MMSP" U+205F, "IDSP" U+3000.
WhiteSpace ==
    {" ", "\t", "\n", "\r", "\f", "VT", "FS", "GS", "RS", "US", "NEL", "NBSP",
     "OGHAM", "ENQUAD", "EMQUAD", "ENSP", "EMSP", "3EMSP", "4EMSP", "6EMSP",
     "PUNCSP", "HAIRSP", "LS", "PS", "MMSP", "IDSP"}
\* where str.splitlines() breaks a text ("\r\n" is one break)
LineBreaks == {"\n", "\r", "VT", "\f", "FS", "GS", "RS", "NEL", "LS", "PS"}
\* the white space float() strips: the separators U+001C .. U+001F stay
FloatSpace == WhiteSpace \ {"FS", "GS", "RS", "US"}

\* Letters and other characters outside ASCII.  Four of them meet ASCII
\* letters: "KELVIN" is the Kelvin sign U+212A (lower case "k"), "LONGS" the
\* long s U+017F (upper case "S"), "DOTLESSI" the dotless i U+0131 (upper
\* case "I") and "DOTTEDI" the capital I with a dot above U+0130, whose lower
\* case is "i" followed by the combining dot U+0307, "COMBDOT".  Every other
\* character behaves as one of "EACUTE" (U+00E9: a lower-case letter),
\* "CAPEACUTE" (U+00C9: an upper-case letter), "SUP2" (U+00B2: a word
\* character without case that is no decimal digit), "CIRCLEDA" and
\* "CAPCIRCLEDA" (U+24D0, U+24B6: cased, no word characters), a digit, a
\* space, or a character that is none of these ("EUR", "RSQUO", "EMDASH",
\* "ENDASH", "SHY", "COMBDOT").
UpperLetters == <<"A","B","C","D","E","F","G","H","I","J","K","L","M","N","O","P","Q","R","S","T","U","V","W","X","Y","Z">>
LowerLetters == <<"a","b","c","d","e","f","g","h","i","j","k","l","m","n","o","p","q","r","s","t","u","v","w","x","y","z">>

\* str.lower() and str.upper() of one character that stays one character
LowerChar(c) ==
    IF \E i \in 1..26 : UpperLetters[i] = c
    THEN LowerLetters[CHOOSE i \in 1..26 : UpperLetters[i] = c]
    ELSE IF c = "KELVIN" THEN "k"
    ELSE IF c = "CAPEACUTE" THEN "EACUTE"
    ELSE IF c = "CAPCIRCLEDA" THEN "CIRCLEDA"
    ELSE c
UpperChar(c) ==
    IF \E i \in 1..26 : LowerLetters[i] = c
    THEN UpperLetters[CHOOSE i \in 1..26 : LowerLetters[i] = c]
    ELSE IF c = "LONGS" THEN "S"
    ELSE IF c = "DOTLESSI" THEN "I"
    ELSE IF c = "EACUTE" THEN "CAPEACUTE"
    ELSE IF c = "CIRCLEDA" THEN "CAPCIRCLEDA"
    ELSE c
\* str.lower(): U+0130 becomes two characters
LowerOf(c) == IF c = "DOTTEDI" THEN <<"i", "COMBDOT">> ELSE <<LowerChar(c)>>
RECURSIVE LowerLong(_)
LowerLong(s) ==
    IF s = <<>> THEN <<>>
    ELSE IF Len(s) = 1 THEN LowerOf(s[1])
    ELSE LowerLong(SubSeq(s, 1, Len(s) \div 2)) \o LowerLong(SubSeq(s, (Len(s) \div 2) + 1, Len(s)))
Lower(s) ==
    IF \A i \in 1..Len(s) : s[i] # "DOTTEDI" THEN [i \in 1..Len(s) |-> LowerChar(s[i])]
    ELSE LowerLong(s)
Upper(s) == [i \in 1..Len(s) |-> UpperChar(s[i])]
\* re.IGNORECASE: the lower-case ASCII letter a character matches, or the
\* character itself
FoldChar(c) ==
    IF c = "LONGS" THEN "s" ELSE IF c \in {"DOTLESSI", "DOTTEDI"} THEN "i" ELSE LowerChar(c)
Fold(s) == [i \in 1..Len(s) |-> FoldChar(s[i])]

\* str.strip() of a text given character by character
StripChars(s) ==
    LET I == {i \in 1..Len(s) : s[i] \notin WhiteSpace} IN
    IF I = {} THEN <<>>
    ELSE SubSeq(s, CHOOSE i \in I : \A j \in I : i <= j,
                   CHOOSE i \in I : \A j \in I : i >= j)

\* str.startswith / str.endswith
StartsWith(s, p) == Len(s) >= Len(p) /\ SubSeq(s, 1, Len(p)) = p
EndsWith(s, p) == Len(s) >= Len(p) /\ SubSeq(s, Len(s) - Len(p) + 1, Len(s)) = p

Max2(a, b) == IF a >= b THEN a ELSE b
Min2(a, b) == IF a <= b THEN a ELSE b

\* ------------------------------------------------------------------- lines
\* "TABLE" stands for the six-line block
\*   CONSOLIDATED BALANCE SHEETS / (in millions) / Assets  2023  2022 /
\*   Cash  100  90 / Inventory  50  40 / Total  150  130
\* every other line stands for itself.
Lines == { " ", "Some text.", "Table of Contents",
           "Item 1. Business", "Item 1A. Risk Factors", "Item 7. MD&A",
           "Item 7. MD&A ..... 12", "Item 7A. Market Risk",
           "Item 8. Financial Statements", "item 8. financial statements",
           "Item 7", "Item 7A", "Item 8", "TABLE", "item 7a. market risk" }

\* len(line)
LineLen(l) ==
    CASE l = " " -> 1
      [] l = "Some text." -> 10
      [] l = "Table of Contents" -> 17
      [] l = "Item 1. Business" -> 16
      [] l = "Item 1A. Risk Factors" -> 21
      [] l = "Item 7. MD&A" -> 12
      [] l = "Item 7. MD&A ..... 12" -> 21
      [] l = "Item 7A. Market Risk" -> 20
      [] l = "Item 8. Financial Statements" -> 28
      [] l = "item 8. financial statements" -> 28
      [] l = "Item 7" -> 6
      [] l = "Item 7A" -> 7
      [] l = "Item 8" -> 6
      [] l = "TABLE" -> 108
      [] l = "item 7a. market risk" -> 20

\* line.strip() = ""
IsBlankLine(l) == l = " "

\* SEC_ITEM_RE on one line: the groups num and title, or <<>> without a match
SEC_ITEM_RE(l) ==
    CASE l = "Item 1. Business" -> [num |-> <<"1">>, title |-> <<"B","u","s","i","n","e","s","s">>]
      [] l = "Item 1A. Risk Factors" -> [num |-> <<"1","A">>, title |-> <<"R","i","s","k"," ","F","a","c","t","o","r","s">>]
      [] l = "Item 7. MD&A" -> [num |-> <<"7">>, title |-> <<"M","D","&","A">>]
      [] l = "Item 7. MD&A ..... 12" -> [num |-> <<"7">>, title |-> <<"M","D","&","A"," ",".",".",".",".","."," ","1","2">>]
      [] l = "Item 7A. Market Risk" -> [num |-> <<"7","A">>, title |-> <<"M","a","r","k","e","t"," ","R","i","s","k">>]
      [] l = "item 7a. market risk" -> [num |-> <<"7","a">>, title |-> <<"m","a","r","k","e","t"," ","r","i","s","k">>]
      [] l = "Item 8. Financial Statements" -> [num |-> <<"8">>, title |-> <<"F","i","n","a","n","c","i","a","l"," ","S","t","a","t","e","m","e","n","t","s">>]
      [] l = "item 8. financial statements" -> [num |-> <<"8">>, title |-> <<"f","i","n","a","n","c","i","a","l"," ","s","t","a","t","e","m","e","n","t","s">>]
      [] OTHER -> <<>>

\* _ITEM_RE on one line: the group num, or <<>> without a match
_ITEM_RE(l) ==
    CASE l \in {"Item 7. MD&A", "Item 7. MD&A ..... 12", "Item 7"} -> <<"7">>
      [] l \in {"Item 7A. Market Risk", "Item 7A"} -> <<"7","A">>
      [] l = "item 7a. market risk" -> <<"7","a">>
      [] l \in {"Item 8. Financial Statements", "item 8. financial statements", "Item 8"} -> <<"8">>
      [] OTHER -> <<>>

\* the _ITEM_RE match on the line reaches the end of the line with an empty
\* title (nothing but the item number, and at most a dot, on the line)
ItemBare(l) == l \in {"Item 7", "Item 7A", "Item 8"}

\* _TOC_LINE_RE anchored at the start of the line: it matches no heading
_is_probable_toc_line_at_start(l) == FALSE

\* _TOC_LINE_RE.search(line)
_is_probable_toc_line(l) == l = "Item 7. MD&A ..... 12"

\* "table of contents" in line.lower(), line.count(" . "), line.count(".....")
HasTocPhrase(l) == l = "Table of Contents"
SpacedDotCount(l) == 0
DotRunCount(l) == IF l = "Item 7. MD&A ..... 12" THEN 1 ELSE 0

\* _TABLE_GATE.search(line) and the table blocks the line holds
_TABLE_GATE(l) == l = "TABLE"
TableBlocks(l) == IF l = "TABLE" THEN 1 ELSE 0
\* len(line.splitlines())
LineCount(l) == IF l = "TABLE" THEN 6 ELSE 1

\* ------------------------------------------------------------------- texts
\* sums over the lines of a text
RECURSIVE SumLineLen(_)
SumLineLen(s) ==
    IF s = <<>> THEN 0
    ELSE IF Len(s) = 1 THEN LineLen(s[1])
    ELSE SumLineLen(SubSeq(s, 1, Len(s) \div 2)) + SumLineLen(SubSeq(s, (Len(s) \div 2) + 1, Len(s)))
RECURSIVE SumSpacedDot(_)
SumSpacedDot(s) ==
    IF s = <<>> THEN 0
    ELSE IF Len(s) = 1 THEN SpacedDotCount(s[1])
    ELSE SumSpacedDot(SubSeq(s, 1, Len(s) \div 2)) + SumSpacedDot(SubSeq(s, (Len(s) \div 2) + 1, Len(s)))
RECURSIVE SumDotRun(_)
SumDotRun(s) ==
    IF s = <<>> THEN 0
    ELSE IF Len(s) = 1 THEN DotRunCount(s[1])
    ELSE SumDotRun(SubSeq(s, 1, Len(s) \div 2)) + SumDotRun(SubSeq(s, (Len(s) \div 2) + 1, Len(s)))
RECURSIVE SumLineCount(_)
SumLineCount(s) ==
    IF s = <<>> THEN 0
    ELSE IF Len(s) = 1 THEN LineCount(s[1])
    ELSE SumLineCount(SubSeq(s, 1, Len(s) \div 2)) + SumLineCount(SubSeq(s, (Len(s) \div 2) + 1, Len(s)))
RECURSIVE SumTableBlocks(_)
SumTableBlocks(s) ==
    IF s = <<>> THEN 0
    ELSE IF Len(s) = 1 THEN TableBlocks(s[1])
    ELSE SumTableBlocks(SubSeq(s, 1, Len(s) \div 2)) + SumTableBlocks(SubSeq(s, (Len(s) \div 2) + 1, Len(s)))

\* offset of the first character of line i in "\n".join(text)
LineStart(text, i) == SumLineLen(SubSeq(text, 1, i - 1)) + (i - 1)
\* len("\n".join(text))
TextLen(text) == IF text = <<>> THEN 0 ELSE SumLineLen(text) + (Len(text) - 1)

\* text.strip(): leading and trailing blank lines go
Strip(text) ==
    LET I == {i \in 1..Len(text) : ~IsBlankLine(text[i])} IN
    IF I = {} THEN <<>>
    ELSE SubSeq(text, CHOOSE i \in I : \A j \in I : i <= j,
                      CHOOSE i \in I : \A j \in I : i >= j)

\* text[:n]: the whole lines that fit, and of the line that is cut its
\* first characters: cut = <<line, kept characters>>; cut = <<"", 0>> when
\* the text ends with the "\n" after the whole lines; cut = <<>> when it
\* ends with the last character of a line, or is empty
WholeLines(text, n) ==
    Cardinality({i \in 1..Len(text) : LineStart(text, i) + LineLen(text[i]) <= n})
Truncate(text, n) ==
    LET k == WholeLines(text, n) IN
    [lines |-> SubSeq(text, 1, k),
     cut |-> IF k < Len(text) /\ LineStart(text, k + 1) < n
             THEN <<text[k + 1], n - LineStart(text, k + 1)>>
             ELSE IF 0 < k /\ k < Len(text) /\ LineStart(text, k + 1) = n
             THEN <<"", 0>>
             ELSE <<>>]

SnippetMax == 1200
CitationMax == 240
CitationLimit == 10
PreviewPages == 8

\* ----------------------------------------------------------------- anchors
\* looks_like_toc(text)
looks_like_toc(text) ==
    \/ \E i \in 1..Len(text) : HasTocPhrase(text[i])
    \/ SumSpacedDot(text) > 10
    \/ SumDotRun(text) > 8

DenseThreshold == 5
SkipTocPagesUpTo == 50

\* the lines of a text on which SEC_ITEM_RE matches, in order
MatchLines(text) == { i \in 1..Len(text) : SEC_ITEM_RE(text[i]) # <<>> }

\* _is_dense_item_page that takes no page for an index
_is_dense_item_page_never(text) == FALSE
\* _is_dense_item_page(page_text)
_is_dense_item_page(text) == Cardinality(MatchLines(text)) >= DenseThreshold

\* m.start() of the heading match on line i.  The pattern's leading \s* also
\* takes the blank lines right before the heading, unless the line before
\* those is a heading match itself: its trailing \s* has taken them already.
RECURSIVE BlankRunStart(_, _)
BlankRunStart(text, i) ==
    IF i > 1 /\ IsBlankLine(text[i - 1]) THEN BlankRunStart(text, i - 1) ELSE i
MatchStart(text, i) ==
    LET b == BlankRunStart(text, i) IN
    IF b > 1 /\ SEC_ITEM_RE(text[b - 1]) # <<>> THEN LineStart(text, i)
    ELSE LineStart(text, b)

\* the scan of one page with seen holding the item numbers as matched, not
\* upper-cased
RECURSIVE ScanLines_as_matched(_, _, _, _)
ScanLines_as_matched(st, page_num, text, i) ==
    IF i > Len(text) THEN st
    ELSE LET m == SEC_ITEM_RE(text[i]) IN
         IF m = <<>> \/ _is_probable_toc_line(text[i]) \/ m.num \in st.seen
         THEN ScanLines_as_matched(st, page_num, text, i + 1)
         ELSE ScanLines_as_matched([seen |-> st.seen \cup {m.num},
                         anchors |-> Append(st.anchors,
                             [item |-> Upper(m.num), title |-> m.title,
                              page |-> page_num, pos |-> MatchStart(text, i)])],
                        page_num, text, i + 1)

\* the scan of one page inside find_sec_anchors: st = [seen, anchors]
RECURSIVE ScanLines(_, _, _, _)
ScanLines(st, page_num, text, i) ==
    IF i > Len(text) THEN st
    ELSE LET m == SEC_ITEM_RE(text[i]) IN
         IF m = <<>> \/ _is_probable_toc_line(text[i]) \/ Upper(m.num) \in st.seen
         THEN ScanLines(st, page_num, text, i + 1)
         ELSE ScanLines([seen |-> st.seen \cup {Upper(m.num)},
                         anchors |-> Append(st.anchors,
                             [item |-> Upper(m.num), title |-> m.title,
                              page |-> page_num, pos |-> MatchStart(text, i)])],
                        page_num, text, i + 1)

\* the pages scanned from the last to the first
RECURSIVE ScanPages_backwards(_, _, _)
ScanPages_backwards(st, pages_norm, k) ==
    IF k > Len(pages_norm) THEN st
    ELSE LET p == pages_norm[Len(pages_norm) - k + 1] IN
         IF \/ (p.page <= SkipTocPagesUpTo /\ looks_like_toc(p.text))
            \/ _is_dense_item_page(p.text)
         THEN ScanPages_backwards(st, pages_norm, k + 1)
         ELSE ScanPages_backwards(ScanLines(st, p.page, p.text, 1), pages_norm, k + 1)

RECURSIVE ScanPages(_, _, _)
ScanPages(st, pages_norm, k) ==
    IF k > Len(pages_norm) THEN st
    ELSE LET p == pages_norm[k] IN
         IF \/ (p.page <= SkipTocPagesUpTo /\ looks_like_toc(p.text))
            \/ _is_dense_item_page(p.text)
         THEN ScanPages(st, pages_norm, k + 1)
         ELSE ScanPages(ScanLines(st, p.page, p.text, 1), pages_norm, k + 1)

AnchorBefore(a, b) == a.page < b.page \/ (a.page = b.page /\ a.pos <= b.pos)

\* anchors.sort(key=(page, pos)): list.sort is stable, as insertion from the
\* back is
RECURSIVE InsertAnchor(_, _)
InsertAnchor(s, x) ==
    IF s = <<>> THEN <<x>>
    ELSE IF AnchorBefore(s[Len(s)], x) THEN Append(s, x)
    ELSE Append(InsertAnchor(SubSeq(s, 1, Len(s) - 1), x), s[Len(s)])
RECURSIVE SortAnchors(_)
SortAnchors(s) ==
    IF s = <<>> THEN <<>>
    ELSE InsertAnchor(SortAnchors(SubSeq(s, 1, Len(s) - 1)), s[Len(s)])

\* find_sec_anchors without the final sort
find_sec_anchors_unsorted(pages_norm) ==
    ScanPages([seen |-> {}, anchors |-> <<>>], pages_norm, 1).anchors

\* find_sec_anchors(pages)
find_sec_anchors(pages_norm) ==
    SortAnchors(ScanPages([seen |-> {}, anchors |-> <<>>], pages_norm, 1).anchors)

\* ------------------------------------------------------------------ slicer
ItemWord == <<"I","t","e","m"," ">>
DotSpace == <<"."," ">>
DocumentTitle == <<"D","o","c","u","m","e","n","t">>

\* spans_from_anchors without the clamp of a span that ends before it starts
spans_from_anchors_unclamped(anchors, last_page) ==
    [i \in 1..Len(anchors) |->
        [item |-> anchors[i].item,
         title |-> ItemWord \o anchors[i].item \o DotSpace \o anchors[i].title,
         start_page |-> anchors[i].page,
         end_page |-> IF i + 1 <= Len(anchors) THEN anchors[i + 1].page - 1 ELSE last_page]]

\* spans_from_anchors with the span of an anchor running up to and including
\* the page of the next anchor
spans_from_anchors_thru_next(anchors, last_page) ==
    [i \in 1..Len(anchors) |->
        LET start_p == anchors[i].page
            end_p == IF i + 1 <= Len(anchors) THEN anchors[i + 1].page ELSE last_page
        IN [item |-> anchors[i].item,
            title |-> ItemWord \o anchors[i].item \o DotSpace \o anchors[i].title,
            start_page |-> start_p,
            end_page |-> IF end_p < start_p THEN start_p ELSE end_p]]

\* spans_from_anchors with every span running to the last page
spans_from_anchors_to_last(anchors, last_page) ==
    [i \in 1..Len(anchors) |->
        [item |-> anchors[i].item,
         title |-> ItemWord \o anchors[i].item \o DotSpace \o anchors[i].title,
         start_page |-> anchors[i].page,
         end_page |-> Max2(last_page, anchors[i].page)]]
\* spans_from_anchors(anchors, last_page)
spans_from_anchors(anchors, last_page) ==
    [i \in 1..Len(anchors) |->
        LET start_p == anchors[i].page
            end_p == IF i + 1 <= Len(anchors) THEN anchors[i + 1].page - 1 ELSE last_page
        IN [item |-> anchors[i].item,
            title |-> ItemWord \o anchors[i].item \o DotSpace \o anchors[i].title,
            start_page |-> start_p,
            end_page |-> IF end_p < start_p THEN start_p ELSE end_p]]

\* page_by_num.get(n): the last page numbered n, <<>> when there is none
PageByNum(pages, n) ==
    IF \E k \in 1..Len(pages) : pages[k].page = n
    THEN pages[CHOOSE k \in 1..Len(pages) :
                 pages[k].page = n /\ \A j \in (k + 1)..Len(pages) : pages[j].page # n]
    ELSE <<>>

\* pages_list[-1]["page"] if pages_list else 1
LastListedPage(pages) == IF pages = <<>> THEN 1 ELSE pages[Len(pages)].page

\* the content_items of one span with the page text taken as it is
RECURSIVE SpanContent_unstripped(_, _, _)
SpanContent_unstripped(pages, n, end_page) ==
    IF n > end_page THEN <<>>
    ELSE LET p == PageByNum(pages, n)
             t == IF p = <<>> THEN <<>> ELSE p.text
         IN IF Strip(t) = <<>> THEN SpanContent_unstripped(pages, n + 1, end_page)
            ELSE <<[page |-> n, snippet |-> Truncate(t, SnippetMax), full |-> t]>>
                 \o SpanContent_unstripped(pages, n + 1, end_page)
\* the content_items of one span
RECURSIVE SpanContent(_, _, _)
SpanContent(pages, n, end_page) ==
    IF n > end_page THEN <<>>
    ELSE LET p == PageByNum(pages, n)
             t == IF p = <<>> THEN <<>> ELSE Strip(p.text)
         IN IF t = <<>> THEN SpanContent(pages, n + 1, end_page)
            ELSE <<[page |-> n, snippet |-> Truncate(t, SnippetMax), full |-> t]>>
                 \o SpanContent(pages, n + 1, end_page)

\* the section of one span; a span without content leaves none
SectionOfSpan(span, content) ==
    [title |-> span.title, start_page |-> span.start_page,
     end_page |-> span.end_page, content |-> content]
SectionsOfSpans(pages, spans, i) ==
    SelectSeq([k \in 1..(Len(spans) + 1 - i) |->
                 SectionOfSpan(spans[k + i - 1],
                               SpanContent(pages, spans[k + i - 1].start_page,
                                           spans[k + i - 1].end_page))],
              LAMBDA sec : sec.content # <<>>)

\* slice_sections with a preview entry for every page
slice_sections_no_cap(pages, anchors) ==
    IF anchors = <<>>
    THEN <<[title |-> DocumentTitle,
            start_page |-> 1,
            end_page |-> LastListedPage(pages),
            content |-> [k \in 1..Len(pages) |->
                           [page |-> pages[k].page,
                            snippet |-> Truncate(pages[k].text, SnippetMax)]]]>>
    ELSE SectionsOfSpans(pages, spans_from_anchors(anchors, LastListedPage(pages)), 1)
\* slice_sections(pages, anchors)
slice_sections(pages, anchors) ==
    IF anchors = <<>>
    THEN <<[title |-> DocumentTitle,
            start_page |-> 1,
            end_page |-> LastListedPage(pages),
            content |-> [k \in 1..Min2(Len(pages), PreviewPages) |->
                           [page |-> pages[k].page,
                            snippet |-> Truncate(pages[k].text, SnippetMax)]]]>>
    ELSE SectionsOfSpans(pages, spans_from_anchors(anchors, LastListedPage(pages)), 1)

\* ----------------------------------------------------------------- rescuer
Item7Prefix == <<"i","t","e","m"," ","7",".">>
Item7aPrefix == <<"i","t","e","m"," ","7","a">>
Item8DotPrefix == <<"i","t","e","m"," ","8",".">>

\* a title for the rescued Item 7 that does not begin with its item code
Title7_unnumbered == <<"M","D","&","A">>
\* the three titles of the rescued sections; "RSQUO" is the apostrophe U+2019
\* of the source, "'" the ASCII one
Title7 == <<"I","t","e","m"," ","7","."," ","M","a","n","a","g","e","m","e","n","t","RSQUO","s"," ","D","i","s","c","u","s","s","i","o","n"," ","a","n","d"," ","A","n","a","l","y","s","i","s"," ","o","f"," ","F","i","n","a","n","c","i","a","l"," ","C","o","n","d","i","t","i","o","n"," ","a","n","d"," ","R","e","s","u","l","t","s"," ","o","f"," ","O","p","e","r","a","t","i","o","n","s">>
Title7A == <<"I","t","e","m"," ","7","A","."," ","Q","u","a","n","t","i","t","a","t","i","v","e"," ","a","n","d"," ","Q","u","a","l","i","t","a","t","i","v","e"," ","D","i","s","c","l","o","s","u","r","e","s"," ","A","b","o","u","t"," ","M","a","r","k","e","t"," ","R","i","s","k">>
Title8 == <<"I","t","e","m"," ","8","."," ","F","i","n","a","n","c","i","a","l"," ","S","t","a","t","e","m","e","n","t","s"," ","a","n","d"," ","S","u","p","p","l","e","m","e","n","t","a","r","y"," ","D","a","t","a">>

\* _ITEM_RE.finditer(text): the num groups found, in order.  After a heading
\* whose line ends right behind the item number, the pattern's \s* and title
\* group run on over the blank lines that follow and take the next line as
\* the title, so that line is not searched for a heading of its own.
First(I, none) == IF I = {} THEN none ELSE CHOOSE i \in I : \A j \in I : i <= j
SkipBlank(text, i) ==
    First({j \in i..Len(text) : ~IsBlankLine(text[j])}, Max2(i, Len(text) + 1))
RECURSIVE ItemMatches(_, _)
ItemMatchesAt(text, i) ==
    <<_ITEM_RE(text[i])>>
        \o ItemMatches(text, IF ItemBare(text[i]) THEN SkipBlank(text, i + 1) + 1
                               ELSE i + 1)
ItemMatches(text, i) ==
    IF \A j \in i..Len(text) : _ITEM_RE(text[j]) = <<>> THEN <<>>
    ELSE ItemMatchesAt(text, First({j \in i..Len(text) : _ITEM_RE(text[j]) # <<>>}, 0))

\* m.group("num").lower() of the matches
Lowered(nums) == {Lower(nums[j]) : j \in 1..Len(nums)}

\* _find_item_page(pages, item): the first page, in list order, on which
\* _ITEM_RE finds that item; 0 stands for None
_find_item_page(pages, item) ==
    LET hit(k) == Lower(item) \in Lowered(ItemMatches(pages[k].text, 1))
    IN IF \E k \in 1..Len(pages) : hit(k)
       THEN pages[CHOOSE k \in 1..Len(pages) : hit(k) /\ \A j \in 1..(k - 1) : ~hit(j)].page
       ELSE 0

\* max(by_page) if by_page else 1
LastPage(pages) ==
    IF pages = <<>> THEN 1
    ELSE CHOOSE n \in {pages[k].page : k \in 1..Len(pages)} :
             \A k \in 1..Len(pages) : pages[k].page <= n

\* the content list built by make()
RECURSIVE MakeContent(_, _, _)
MakeContent(pages, i, end) ==
    IF i > end THEN <<>>
    ELSE (IF PageByNum(pages, i) = <<>> THEN <<>>
          ELSE <<[page |-> i, snippet |-> Truncate(PageByNum(pages, i).text, SnippetMax)]>>)
         \o MakeContent(pages, i + 1, end)

\* make(title, start, end): a one-element list, or <<>> for None
make(pages, title, start, end) ==
    IF start = 0 \/ end = 0 \/ start > end THEN <<>>
    ELSE <<[title |-> title, start_page |-> start, end_page |-> end,
            content |-> MakeContent(pages, start, end)]>>

\* the end page the rescuer gives Item 7 and Item 7A
End7(p7, p7a, p8, last_page) ==
    LET located == {x \in {p7a, p8} : x # 0}
        first == IF located = {} THEN last_page
                 ELSE CHOOSE x \in located : \A y \in located : x <= y
    IN Max2(first - 1, p7)
End7A(p7a, p8, last_page) ==
    Max2((IF p8 # 0 THEN p8 ELSE last_page) - 1, p7a)

\* the sections that start on page k or later, those of the earliest start
\* page first and in their list order
RECURSIVE SortedFrom(_, _)
SectionsStartingOn(s, keys, k) ==
    SelectSeq(s, LAMBDA x : x.start_page = k)
        \o SortedFrom(s, { j \in keys : j > k })
SortedFrom(s, keys) ==
    IF keys = {} THEN <<>>
    ELSE SectionsStartingOn(s, keys, CHOOSE k \in keys : \A j \in keys : k <= j)

\* new.sort left out
SortSections_none(s) == s

\* new.sort(key=start_page): stable
SortSections(s) == SortedFrom(s, { s[i].start_page : i \in 1..Len(s) })

\* the want7 / want7a / want8 test without the look at the existing titles
NoTitleStarts_always(sections, prefix) == TRUE

\* want7 / want7a / want8: all(not t.startswith(prefix) for t in titles_lower)
NoTitleStarts(sections, prefix) ==
    \A k \in 1..Len(sections) : ~StartsWith(Lower(sections[k].title), prefix)

\* _inject_synthetic_sections(sections, pages)
_inject_synthetic_sections(sections, pages) ==
    LET want7 == NoTitleStarts(sections, Item7Prefix)
        want7a == NoTitleStarts(sections, Item7aPrefix)
        want8 == NoTitleStarts(sections, Item8DotPrefix)
        last_page == LastPage(pages)
        p7 == _find_item_page(pages, <<"7">>)
        p7a == _find_item_page(pages, <<"7","a">>)
        p8 == _find_item_page(pages, <<"8">>)
        sec7 == IF want7 /\ p7 # 0
                THEN make(pages, Title7, p7, End7(p7, p7a, p8, last_page)) ELSE <<>>
        sec7a == IF want7a /\ p7a # 0
                 THEN make(pages, Title7A, p7a, End7A(p7a, p8, last_page)) ELSE <<>>
        sec8 == IF want8 /\ p8 # 0
                THEN make(pages, Title8, p8, last_page) ELSE <<>>
    IN IF ~(want7 \/ want7a \/ want8) THEN sections
       ELSE SortSections(sections \o sec7 \o sec7a \o sec8)

\* --------------------------------------------------------- table extractor
\* _infer_title(txt) or "Financial table (detected)": the title is read off
\* the first 60 lines of the page, where the only line that matches a title
\* pattern is the first line of a table block
TitleHeadLines == 60
PageTitle(text) ==
    IF \E i \in 1..Len(text) :
          text[i] = "TABLE" /\ SumLineCount(SubSeq(text, 1, i - 1)) < TitleHeadLines
    THEN "Consolidated Balance Sheets"
    ELSE "Financial table (detected)"
\* The table blocks of one page: none unless the page passes _TABLE_GATE;
\* each block is named by its page and its rank on the page.
TablesOfPage(p) ==
    IF \E i \in 1..Len(p.text) : _TABLE_GATE(p.text[i])
    THEN [k \in 1..SumTableBlocks(p.text) |->
            [title |-> PageTitle(p.text), pages |-> <<p.page>>, block |-> k]]
    ELSE <<>>

\* extract_tables_from_pages(pages)
RECURSIVE extract_tables_from_pages(_)
extract_tables_from_pages(pages) ==
    IF pages = <<>> THEN <<>>
    ELSE TablesOfPage(Head(pages)) \o extract_tables_from_pages(Tail(pages))

\* ------------------------------------------------------------ orchestrator
\* The extractor stages of parse_pdf_with_citations, in the order of the
\* code, and the stages before them that are called outside any try block.
StageOrder == <<"kpi", "risks", "financials", "non_gaap", "market_risk",
                "auditor", "legal", "capital_structure">>
Extractors == {StageOrder[i] : i \in 1..Len(StageOrder)}
EarlyStages == {"pages", "anchors", "sections", "rescue"}
StagesBefore(s) ==
    {StageOrder[i] : i \in {j \in 1..Len(StageOrder) :
                               \E k \in (j + 1)..Len(StageOrder) : StageOrder[k] = s}}

\* the key of derived that holds str(e) of a stage
ErrorKey(s) ==
    CASE s = "kpi" -> "_kpi_error"
      [] s = "risks" -> "_risks_error"
      [] s = "financials" -> "_financials_error"
      [] s = "non_gaap" -> "_non_gaap_error"
      [] s = "market_risk" -> "_market_risk_error"
      [] s = "auditor" -> "_auditor_error"
      [] s = "legal" -> "_legal_error"
      [] s = "capital_structure" -> "_capital_structure_error"
ErrorKeys == {ErrorKey(s) : s \in Extractors}
\* str(e)
ErrorString(s) == <<"raised", s>>

\* dict.update(e) on d, and d[k] = v
Update(d, e) == e @@ d
Put(d, k, v) == (k :> v) @@ d
EmptyDict == <<>>
EmptyList == <<>>

\* What an extractor makes of the text it scans is not interpreted here: the
\* result is named by the extractor and by everything the extractor reads.
Scan(fn, reads) == [fn |-> fn, reads |-> reads]

\* next((s for s in sections if title.lower().startswith(prefix)), None);
\* <<>> stands for None
FirstSection(sections, prefix) ==
    IF \E k \in 1..Len(sections) : StartsWith(Lower(sections[k].title), prefix)
    THEN sections[CHOOSE k \in 1..Len(sections) :
                    /\ StartsWith(Lower(sections[k].title), prefix)
                    /\ \A j \in 1..(k - 1) : ~StartsWith(Lower(sections[j].title), prefix)]
    ELSE <<>>

\* _get_section_by_item(sections, item_prefix)
_get_section_by_item(sections, item_prefix) ==
    FirstSection(sections, StripChars(Lower(item_prefix)))

\* extract_kpis(doc): reads doc["sections"] and doc["pages"] only
extract_kpis(doc) ==
    [kpis |-> Scan("extract_kpis", <<doc.sections, doc.pages>>), segments |-> EmptyList]

\* extract_top_risks_from_item_1a(sections)
extract_top_risks_from_item_1a(sections) ==
    LET one_a == FirstSection(sections, <<"i","t","e","m"," ","1","a">>) IN
    IF one_a = <<>> THEN EmptyList
    ELSE Scan("extract_top_risks_from_item_1a", one_a.content)

\* extract_non_gaap(sections)
extract_non_gaap(sections) == Scan("extract_non_gaap", sections)

\* extract_market_risk(sections)
extract_market_risk(sections) ==
    LET sec == FirstSection(sections, <<"i","t","e","m"," ","7","a">>) IN
    IF sec = <<>> THEN EmptyDict ELSE Scan("extract_market_risk", sec.content)

\* extract_controls_auditor(sections)
extract_controls_auditor(sections) ==
    LET a == FirstSection(sections, <<"i","t","e","m"," ","9","a">>)
        sec == IF a # <<>> THEN a ELSE FirstSection(sections, <<"i","t","e","m"," ","9",".">>)
    IN IF sec = <<>> THEN EmptyDict
       ELSE Scan("extract_controls_auditor", <<sec.start_page, sec.content>>)

\* extract_legal_items(sections)
extract_legal_items(sections) ==
    LET sec == FirstSection(sections, <<"i","t","e","m"," ","3">>) IN
    IF sec = <<>> THEN [items |-> EmptyList]
    ELSE [items |-> Scan("extract_legal_items", <<sec.start_page, sec.content>>)]

\* extract_capital_structure(pages)
extract_capital_structure(pages) == Scan("extract_capital_structure", pages)

\* ".pdf" in str(path).lower(): the suffix test replaced by a substring test
IsPdfPath_contains(p) ==
    \E i \in 1..Len(p) : StartsWith(SubSeq(Lower(p), i, Len(p)), <<".","p","d","f">>)

\* str(path).lower().endswith(".pdf")
IsPdfPath(p) == EndsWith(Lower(p), <<".","p","d","f">>)

\* list(range(a, b + 1))
Range(a, b) == [i \in 1..(b - a + 1) |-> a + i - 1]

\* {s["title"]: {"pages": [...]} for s in sections}: a later section takes
\* the key of an earlier one with the same title
LastTitled(sections, t) ==
    CHOOSE k \in 1..Len(sections) :
        sections[k].title = t /\ \A j \in (k + 1)..Len(sections) : sections[j].title # t
SectionsMap(sections) ==
    IF sections = <<>> THEN EmptyDict
    ELSE [t \in { sections[k].title : k \in 1..Len(sections) } |->
            [pages |-> Range(sections[LastTitled(sections, t)].start_page,
                             sections[LastTitled(sections, t)].end_page)]]

\* _citations_from_pages(pages): the stripped text with "\n" turned into " ",
\* cut to 240 characters
_citations_from_pages(pages) ==
    [k \in 1..Min2(Len(pages), CitationLimit) |->
        [page |-> pages[k].page,
         snippet |-> [newline |-> " ", text |-> Truncate(Strip(pages[k].text), CitationMax)]]]

\* the result of the non-PDF fallback
NonPdfResult(now) ==
    [created_at |-> now,
     doc_meta |-> [pages |-> 1, doc_type |-> "unknown", anchors_found |-> 0],
     sections |-> <<[title |-> DocumentTitle, start_page |-> 1, end_page |-> 1,
                     content |-> <<[page |-> 1,
                                    snippet |-> [lines |-> <<"(non-PDF preview)">>, cut |-> <<>>]]>>]>>,
     sections_map |-> (DocumentTitle :> [pages |-> <<1>>]),
     pages |-> <<[page |-> 1, text |-> <<"(non-PDF)">>]>>,
     citations |-> <<[page |-> 1, snippet |-> [newline |-> " ",
                        text |-> [lines |-> <<"(non-PDF)">>, cut |-> <<>>]]]>>,
     derived |-> [kpis |-> EmptyList, segments |-> EmptyList, risks |-> EmptyList,
                  financials |-> EmptyList, non_gaap |-> EmptyList,
                  market_risk |-> EmptyDict, auditor |-> EmptyDict, legal |-> EmptyDict],
     capital_structure |-> EmptyDict]

\* the analysis dict built before the extractor stages ("3) Base analysis")
BaseAnalysis(now, pages, anchors, sections) ==
    [created_at |-> now,
     doc_meta |-> [pages |-> LastPage(pages),
                   doc_type |-> IF anchors # <<>> THEN "10-K/10-Q detected" ELSE "generic",
                   anchors_found |-> Len(anchors)],
     sections |-> sections,
     sections_map |-> SectionsMap(sections),
     pages |-> pages,
     citations |-> _citations_from_pages(pages),
     derived |-> EmptyDict]

FinancialsCap == 4
\* the first n elements: s[:n]
Take(s, n) == SubSeq(s, 1, Min2(Len(s), n))

\* "6) Financials" with the [:4] slice moved onto the final list
Financials_cap_all(sections, pages) ==
    LET fin_sec == _get_section_by_item(sections, <<"i","t","e","m"," ","8">>)
        span_pages == SelectSeq(pages, LAMBDA p :
                          fin_sec.start_page <= p.page /\ p.page <= fin_sec.end_page)
        scoped == IF fin_sec # <<>> THEN extract_tables_from_pages(span_pages) ELSE EmptyList
    IN Take(IF scoped # <<>> THEN scoped ELSE extract_tables_from_pages(pages),
            FinancialsCap)

\* the try body of "6) Financials": the value stored in derived["financials"]
Financials(sections, pages) ==
    LET fin_sec == _get_section_by_item(sections, <<"i","t","e","m"," ","8">>)
        span_pages == SelectSeq(pages, LAMBDA p :
                          fin_sec.start_page <= p.page /\ p.page <= fin_sec.end_page)
        scoped == IF fin_sec # <<>> THEN extract_tables_from_pages(span_pages) ELSE EmptyList
    IN IF scoped # <<>> THEN scoped
       ELSE Take(extract_tables_from_pages(pages), FinancialsCap)

\* Each stage as the code runs it: a is the analysis dict, raises tells
\* whether the call inside the try block raises.  The result is the dict
\* after the stage and whether an exception leaves the stage; every stage
\* has "except Exception", so none does.
\* "4) KPIs" assigning derived instead of updating it
StageKpi_assigns(a, raises) ==
    IF raises
    THEN [analysis |-> [a EXCEPT !.derived =
                           [kpis |-> EmptyList, segments |-> EmptyList,
                            _kpi_error |-> ErrorString("kpi")]],
          escapes |-> FALSE]
    ELSE [analysis |-> [a EXCEPT !.derived =
                           extract_kpis([a EXCEPT !.sections = a.sections_map])],
          escapes |-> FALSE]

StageKpi(a, raises) ==
    IF raises
    THEN [analysis |-> [a EXCEPT !.derived =
                           Update(@, [kpis |-> EmptyList, segments |-> EmptyList,
                                      _kpi_error |-> ErrorString("kpi")])],
          escapes |-> FALSE]
    ELSE [analysis |-> [a EXCEPT !.derived =
                           Update(@, extract_kpis([a EXCEPT !.sections = a.sections_map]))],
          escapes |-> FALSE]

\* a stage whose except branch stores the default and drops str(e)
StoreDerived_silent(a, s, key, value, default, raises) ==
    IF raises
    THEN [analysis |-> [a EXCEPT !.derived = Put(@, key, default)], escapes |-> FALSE]
    ELSE [analysis |-> [a EXCEPT !.derived = Put(@, key, value)], escapes |-> FALSE]

\* the stages that store one key of derived: value on success, default and
\* error string when the call raises
StoreDerived(a, s, key, value, default, raises) ==
    IF raises
    THEN [analysis |-> [a EXCEPT !.derived =
                           Put(Put(@, key, default), ErrorKey(s), ErrorString(s))],
          escapes |-> FALSE]
    ELSE [analysis |-> [a EXCEPT !.derived = Put(@, key, value)], escapes |-> FALSE]

StageRisks(a, sections, raises) ==
    StoreDerived(a, "risks", "risks", extract_top_risks_from_item_1a(sections), EmptyList, raises)
StageFinancials(a, sections, pages, raises) ==
    StoreDerived(a, "financials", "financials", Financials(sections, pages), EmptyList, raises)
StageNonGaap(a, sections, raises) ==
    StoreDerived(a, "non_gaap", "non_gaap", extract_non_gaap(sections), EmptyList, raises)
StageMarketRisk(a, sections, raises) ==
    StoreDerived(a, "market_risk", "market_risk", extract_market_risk(sections), EmptyDict, raises)
StageAuditor(a, sections, raises) ==
    StoreDerived(a, "auditor", "auditor", extract_controls_auditor(sections), EmptyDict, raises)
StageLegal(a, sections, raises) ==
    StoreDerived(a, "legal", "legal", extract_legal_items(sections), [items |-> EmptyList], raises)
\* "11) Capital structure" called outside a try block
StageCapitalStructure_no_try(a, pages, raises) ==
    IF raises
    THEN [analysis |-> a, escapes |-> TRUE]
    ELSE [analysis |-> Put(a, "capital_structure", extract_capital_structure(pages)),
          escapes |-> FALSE]

StageCapitalStructure(a, pages, raises) ==
    IF raises
    THEN [analysis |-> Put([a EXCEPT !.derived = Put(@, "_capital_structure_error",
                                                     ErrorString("capital_structure"))],
                           "capital_structure", EmptyDict),
          escapes |-> FALSE]
    ELSE [analysis |-> Put(a, "capital_structure", extract_capital_structure(pages)),
          escapes |-> FALSE]

\* ---------------------------------------------------------------- numbers
\* Natural numbers of any size: sequences of 14-bit limbs, least significant
\* first, without leading zeros; <<>> is 0.  Python's int is unbounded and its
\* float is an IEEE 754 double, whose mantissa has 53 bits.
LimbBits == 14
LimbBase == 16384
MantissaBits == 53

LimbAt(a, i) == IF 1 <= i /\ i <= Len(a) THEN a[i] ELSE 0
\* a without its leading zero limbs
BNorm(a) ==
    LET I == {i \in 1..Len(a) : a[i] # 0} IN
    IF I = {} THEN <<>> ELSE SubSeq(a, 1, CHOOSE i \in I : \A j \in I : i >= j)
RECURSIVE BOfInt(_)
BOfInt(n) == IF n = 0 THEN <<>> ELSE <<n % LimbBase>> \o BOfInt(n \div LimbBase)
\* the value of a number below 2^31
RECURSIVE BToInt(_)
BToInt(a) == IF a = <<>> THEN 0 ELSE a[1] + (LimbBase * BToInt(Tail(a)))
RECURSIVE SmallBitLen(_)
SmallBitLen(x) == IF x = 0 THEN 0 ELSE 1 + SmallBitLen(x \div 2)
\* int.bit_length()
BitLen(a) ==
    IF a = <<>> THEN 0 ELSE LimbBits * (Len(a) - 1) + SmallBitLen(a[Len(a)])
\* a << k, a >> k, a % 2^k
BShl(a, k) ==
    LET w == k \div LimbBits
        p == 2 ^ (k % LimbBits)
    IN  BNorm([i \in 1..(Len(a) + w + 1) |->
                 ((LimbAt(a, i - w) * p) % LimbBase) + ((LimbAt(a, i - w - 1) * p) \div LimbBase)])
BShr(a, k) ==
    LET w == k \div LimbBits
        r == k % LimbBits
    IN  IF Len(a) <= w THEN <<>>
        ELSE BNorm([i \in 1..(Len(a) - w) |->
                      (LimbAt(a, i + w) \div (2 ^ r))
                          + ((LimbAt(a, i + w + 1) % (2 ^ r)) * (2 ^ (LimbBits - r)))])
BLow(a, k) ==
    LET w == k \div LimbBits
        r == k % LimbBits
    IN  BNorm([i \in 1..Min2(Len(a), w + 1) |->
                 IF i <= w THEN a[i] ELSE a[i] % (2 ^ r)])
BOdd(a) == a # <<>> /\ a[1] % 2 = 1

\* The number whose limb i is worth v[i], where v[i] may exceed a limb or be
\* negative: the limbs lo .. hi with the carry c coming in, and the carry
\* going out.  The range is halved at every step so that long numbers stay
\* within the depth of evaluation.
CarryJoin(low, high) == [limbs |-> low.limbs \o high.limbs, c |-> high.c]
RECURSIVE CarryRange(_, _, _, _)
CarryHigh(v, mid, hi, low) == CarryJoin(low, CarryRange(v, mid + 1, hi, low.c))
CarryRange(v, lo, hi, c) ==
    IF lo > hi THEN [limbs |-> <<>>, c |-> c]
    ELSE IF lo = hi
    THEN [limbs |-> <<(v[lo] + c) % LimbBase>>, c |-> (v[lo] + c) \div LimbBase]
    ELSE CarryHigh(v, (lo + hi) \div 2, hi, CarryRange(v, lo, (lo + hi) \div 2, c))
CarryOut(r) == BNorm(r.limbs \o BOfInt(r.c))
Carried(v, n) == CarryOut(CarryRange(v, 1, n, 0))

\* a + b, and a - b for a >= b
BAdd(a, b) ==
    Carried([i \in 1..Max2(Len(a), Len(b)) |-> LimbAt(a, i) + LimbAt(b, i)],
            Max2(Len(a), Len(b)))
BSub(a, b) == BNorm(CarryRange([i \in 1..Len(a) |-> a[i] - LimbAt(b, i)], 1, Len(a), 0).limbs)
\* a < b
BLess(a, b) ==
    \/ Len(a) < Len(b)
    \/ /\ Len(a) = Len(b)
       /\ \E i \in 1..Len(a) : a[i] < b[i] /\ \A j \in (i + 1)..Len(a) : a[j] = b[j]

\* a * x for 0 <= x < 2^14
BMulSmall(a, x) ==
    IF x = 0 THEN <<>> ELSE Carried([i \in 1..Len(a) |-> a[i] * x], Len(a))
\* a * b: the sum of a * b[i] * 2^(14 (i - 1)) over the limbs lo .. hi of b
RECURSIVE BMulRange(_, _, _, _)
BMulRange(a, b, lo, hi) ==
    IF lo > hi THEN <<>>
    ELSE IF lo = hi THEN BShl(BMulSmall(a, b[lo]), LimbBits * (lo - 1))
    ELSE BAdd(BMulRange(a, b, lo, (lo + hi) \div 2),
              BMulRange(a, b, ((lo + hi) \div 2) + 1, hi))
BMul(a, b) == IF a = <<>> THEN <<>> ELSE BMulRange(a, b, 1, Len(b))

\* divmod(a, x) for 0 < x < 2^14: the limbs hi .. lo of the quotient, most
\* significant first, from the top of a down, with the remainder r coming
\* in, and the remainder going out
DivJoin(low, high) == [q |-> high.q \o low.q, r |-> low.r]
RECURSIVE BDivRange(_, _, _, _, _)
BDivLow(a, x, lo, mid, high) == DivJoin(BDivRange(a, x, lo, mid, high.r), high)
BDivRange(a, x, lo, hi, r) ==
    IF lo > hi THEN [q |-> <<>>, r |-> r]
    ELSE IF lo = hi
    THEN [q |-> <<((r * LimbBase) + a[lo]) \div x>>, r |-> ((r * LimbBase) + a[lo]) % x]
    ELSE BDivLow(a, x, lo, (lo + hi) \div 2,
                 BDivRange(a, x, ((lo + hi) \div 2) + 1, hi, r))
DivOut(d) == [q |-> BNorm([i \in 1..Len(d.q) |-> d.q[Len(d.q) - i + 1]]), r |-> d.r]
BDivSmall(a, x) == DivOut(BDivRange(a, x, 1, Len(a), 0))
\* a // 10^k, and whether a % 10^k > 0: by 10^(k // 2), then by the rest
BDivPow10Leaf(d) == [q |-> d.q, rest |-> d.r # 0]
BDivPow10Both(d, e) == [q |-> e.q, rest |-> d.rest \/ e.rest]
RECURSIVE BDivPow10(_, _)
BDivPow10Next(d, k) ==
    IF d.q = <<>> THEN d ELSE BDivPow10Both(d, BDivPow10(d.q, k))
BDivPow10(a, k) ==
    IF k <= 4 THEN BDivPow10Leaf(BDivSmall(a, 10 ^ k))
    ELSE BDivPow10Next(BDivPow10(a, k \div 2), k - (k \div 2))
\* 10^k
RECURSIVE BPow10(_)
BSquare(a) == BMul(a, a)
BPow10(k) ==
    IF k <= 4 THEN BOfInt(10 ^ k)
    ELSE IF k % 2 = 0 THEN BSquare(BPow10(k \div 2))
    ELSE BMulSmall(BSquare(BPow10(k \div 2)), 10)

\* [0-9]: the decimal digits, in the order of their values
DigitChars == <<"0","1","2","3","4","5","6","7","8","9">>
IsDigit(c) == \E i \in 1..10 : DigitChars[i] = c
DigitValue(c) == (CHOOSE i \in 1..10 : DigitChars[i] = c) - 1
DigitSet == {DigitChars[i] : i \in 1..10}
\* \d of a str pattern takes the decimal digits of every script, and float()
\* reads them by their values; "AI0" .. "AI9" are the Arabic-Indic digits
\* U+0660 .. U+0669 and stand for the digits outside ASCII
OtherDigitChars == <<"AI0","AI1","AI2","AI3","AI4","AI5","AI6","AI7","AI8","AI9">>
UnicodeDigits == DigitSet \cup {OtherDigitChars[i] : i \in 1..10}
IsUnicodeDigit(c) == c \in UnicodeDigits
\* the ASCII digit of the value of c, c itself when c is no digit
AsciiDigit(c) ==
    IF \E i \in 1..10 : OtherDigitChars[i] = c
    THEN DigitChars[CHOOSE i \in 1..10 : OtherDigitChars[i] = c]
    ELSE c
AsciiDigits(s) == [i \in 1..Len(s) |-> AsciiDigit(s[i])]
\* ds without its leading zeros
Significant(ds) ==
    LET I == {i \in 1..Len(ds) : ds[i] # "0"} IN
    IF I = {} THEN <<>> ELSE SubSeq(ds, CHOOSE i \in I : \A j \in I : i <= j, Len(ds))
\* int(ds), for up to four digits and for any number of them
RECURSIVE SmallOfDigits(_)
SmallOfDigits(ds) ==
    IF ds = <<>> THEN 0
    ELSE (10 * SmallOfDigits(SubSeq(ds, 1, Len(ds) - 1))) + DigitValue(ds[Len(ds)])
RECURSIVE BOfDigits(_)
BOfDigits(ds) ==
    IF Len(ds) <= 4 THEN BOfInt(SmallOfDigits(ds))
    ELSE BAdd(BMul(BPow10(Len(ds) \div 2), BOfDigits(SubSeq(ds, 1, Len(ds) - (Len(ds) \div 2)))),
              BOfDigits(SubSeq(ds, Len(ds) - (Len(ds) \div 2) + 1, Len(ds))))
\* str(n): the digits of a number below 2^28 one by one; a longer number is
\* cut at 10^h for half the number h of its digits, which BitLen bounds
RECURSIVE SmallDigitsOf(_)
SmallDigitsOf(n) ==
    IF n = 0 THEN <<>> ELSE SmallDigitsOf(n \div 10) \o <<DigitChars[(n % 10) + 1]>>
ZeroPadded(ds, h) == [i \in 1..(h - Len(ds)) |-> "0"] \o ds
HalfDigits(a) == (((BitLen(a) * 1233) \div 4096) + 1) \div 2
RECURSIVE BDigitsOf(_)
BDigitsSplit(a, h, q) ==
    BDigitsOf(q) \o ZeroPadded(BDigitsOf(BSub(a, BMul(q, BPow10(h)))), h)
BDigitsOf(a) ==
    IF Len(a) <= 2 THEN SmallDigitsOf(BToInt(a))
    ELSE BDigitsSplit(a, HalfDigits(a), BDivPow10(a, HalfDigits(a)).q)
BToDigits(a) == IF a = <<>> THEN <<"0">> ELSE BDigitsOf(a)

\* A float: mantissa m (odd, at most 53 bits), exponent e and sign neg stand
\* for m * 2^e, negated when neg; zero is m = <<>>, e = 0; infinity is m = 1,
\* e = 1024 and nan is m = <<>>, e = 1024.  The least exponent of a double's
\* last bit is -1074.
InfExponent == 1024
MinExponent == -1074
RECURSIVE SmallLowZeros(_)
SmallLowZeros(x) == IF x % 2 = 1 THEN 0 ELSE 1 + SmallLowZeros(x \div 2)
LowZeros(a) ==
    LET I == {i \in 1..Len(a) : a[i] # 0} IN
    IF I = {} THEN 0
    ELSE LimbBits * ((CHOOSE i \in I : \A j \in I : i <= j) - 1)
             + SmallLowZeros(a[CHOOSE i \in I : \A j \in I : i <= j])
FShifted(m, e, z) == [neg |-> FALSE, m |-> BShr(m, z), e |-> e + z]
FCanon(m, e) ==
    IF m = <<>> THEN [neg |-> FALSE, m |-> <<>>, e |-> 0]
    ELSE FShifted(m, e, LowZeros(m))
FZero == FCanon(<<>>, 0)
FInf == [neg |-> FALSE, m |-> <<1>>, e |-> InfExponent]
FNaN == [neg |-> FALSE, m |-> <<>>, e |-> InfExponent]
IsNaN(x) == x.m = <<>> /\ x.e = InfExponent
IsInf(x) == x.m = <<1>> /\ x.e = InfExponent

\* the double nearest to (q + t) * 2^e, where 0 <= t < 1 and t > 0 iff
\* sticky; ties go to the even mantissa; q has more than 53 bits when sticky
FRoundUp(m, low, half, sticky) ==
    BLess(half, low) \/ (low = half /\ (sticky \/ BOdd(m)))
FRoundTo(m, up, e) == FCanon(IF up THEN BAdd(m, <<1>>) ELSE m, e)
FRoundBits(q, sticky, e, d, m) ==
    FRoundTo(m, FRoundUp(m, BLow(q, d), BShl(<<1>>, d - 1), sticky), e + d)
FRound(q, sticky, e) ==
    IF BitLen(q) <= MantissaBits THEN FCanon(q, e)
    ELSE FRoundBits(q, sticky, e, BitLen(q) - MantissaBits,
                    BShr(q, BitLen(q) - MantissaBits))
\* the same over the whole range of the doubles: below 2^-1022 fewer bits are
\* kept, and a result of 2^1024 or more is infinity
FInRange(x) == IF BitLen(x.m) + x.e > InfExponent THEN FInf ELSE x
FRoundDrop(q, sticky, e, d) ==
    IF d <= 0 THEN FCanon(q, e) ELSE FRoundBits(q, sticky, e, d, BShr(q, d))
FRoundRange(q, sticky, e) ==
    FInRange(FRoundDrop(q, sticky, e, Max2(BitLen(q) - MantissaBits, MinExponent - e)))

\* bits kept below the mantissa before rounding a quotient
GuardBits == 3

\* the double nearest to n * 2^e / 10^k, for a number n > 0
FRoundQuotient(d, e) == FRound(d.q, d.rest, e)
FRoundRangeQuotient(d, e) == FRoundRange(d.q, d.rest, e)
FQuotient(n, e, k) ==
    FRoundQuotient(BDivPow10(BShl(n, MantissaBits + GuardBits + 4 * k), k),
                   e - (MantissaBits + GuardBits + 4 * k))

\* float(s) for s of the form digits or digits.digits
FloatOfDigits(n, places) ==
    IF n = <<>> THEN FZero
    ELSE IF places < 0 THEN FRound(n, FALSE, 0)
    ELSE FQuotient(n, 0, places)
\* s with its "." at p, or without one when p = Len(s) + 1
FloatOfDecimalAt(s, p) ==
    FloatOfDigits(BOfDigits(SubSeq(s, 1, p - 1) \o SubSeq(s, p + 1, Len(s))),
                  IF p > Len(s) THEN -1 ELSE Len(s) - p)
FloatOfDecimal(s) ==
    LET dot == {i \in 1..Len(s) : s[i] = "."}
    IN  FloatOfDecimalAt(s, IF dot = {} THEN Len(s) + 1 ELSE CHOOSE i \in dot : TRUE)
\* float(n) for an int below 2^31
FloatOfInt(n) == FRound(BOfInt(n), FALSE, 0)
\* x / 10^k
FDivPow10(x, k) ==
    IF x.m = <<>> \/ IsInf(x) THEN x
    ELSE FRoundRangeQuotient(BDivPow10(BShl(x.m, MantissaBits + GuardBits + 4 * k), k),
                             x.e - (MantissaBits + GuardBits + 4 * k))
\* -x
FNeg(x) == IF IsNaN(x) THEN x ELSE [x EXCEPT !.neg = ~x.neg]
\* abs(x) < abs(y), x + y and x - y for x >= y, on floats that are zero or
\* positive
FMagLess(x, y) ==
    LET lo == Min2(x.e, y.e)
    IN  BLess(BShl(x.m, x.e - lo), BShl(y.m, y.e - lo))
FAdd(x, y) ==
    FRound(BAdd(BShl(x.m, x.e - Min2(x.e, y.e)), BShl(y.m, y.e - Min2(x.e, y.e))),
           FALSE, Min2(x.e, y.e))
FSub(x, y) ==
    FRound(BSub(BShl(x.m, x.e - Min2(x.e, y.e)), BShl(y.m, y.e - Min2(x.e, y.e))),
           FALSE, Min2(x.e, y.e))
\* x < y: false when either is nan, and -0.0 is not below 0.0
FLess(x, y) ==
    /\ ~IsNaN(x) /\ ~IsNaN(y)
    /\ IF x.neg # y.neg THEN x.neg /\ (x.m # <<>> \/ y.m # <<>>)
       ELSE IF x.neg THEN FMagLess(y, x) ELSE FMagLess(x, y)

\* round(x * 10^places) to an integer, ties to even: the digits that
\* format(x, ".2f") and format(x, ".0f") print
FScaledUp(q, up) == IF up THEN BAdd(q, <<1>>) ELSE q
FScaledBits(t, k, q) ==
    FScaledUp(q, FRoundUp(q, BLow(t, k), BShl(<<1>>, k - 1), FALSE))
FScaledOf(t, e) ==
    IF e >= 0 THEN BShl(t, e) ELSE FScaledBits(t, 0 - e, BShr(t, 0 - e))
FScaled(x, places) == FScaledOf(BMul(x.m, BPow10(places)), x.e)
\* format(x, ".2f")
Padded(ds) == IF Len(ds) < 3 THEN [i \in 1..(3 - Len(ds)) |-> "0"] \o ds ELSE ds
Pointed(pad) ==
    SubSeq(pad, 1, Len(pad) - 2) \o <<".">> \o SubSeq(pad, Len(pad) - 1, Len(pad))
Format2f(x) ==
    IF IsInf(x) THEN <<"i","n","f">>
    ELSE IF IsNaN(x) THEN <<"n","a","n">>
    ELSE Pointed(Padded(BToDigits(FScaled(x, 2))))
\* the thousands separators of format(x, ",")
RECURSIVE Grouped(_)
Grouped(ds) ==
    IF Len(ds) <= 3 THEN ds
    ELSE Grouped(SubSeq(ds, 1, Len(ds) - 3)) \o <<",">> \o SubSeq(ds, Len(ds) - 2, Len(ds))
\* format(x, ",.0f")
FormatGrouped0f(x) ==
    IF IsInf(x) THEN <<"i","n","f">>
    ELSE IF IsNaN(x) THEN <<"n","a","n">>
    ELSE Grouped(BToDigits(FScaled(x, 0)))

\* ------------------------------------------------- risk extractor, on text
\* utils/risk_extract.py computed on section texts given character by
\* character; a score is the double the code computes

\* sentences and passages the extractor is run on
Risk30 ==
    <<"O","u","r"," ","r","i","s","k"," ","i","s"," ","l","o","w"," ","f","o","r"," ","t","h","i","s"," ","y","e","a","r",".">>
Plain30 ==
    <<"W","e"," ","s","e","l","l"," ","g","o","o","d","s"," ","i","n"," ","s","o","m","e"," ","n","a","t","i","o","n","s",".">>
Adverse90 ==
    <<"A"," ","m","a","t","e","r","i","a","l"," ","a","d","v","e","r","s","e"," ","o","u","t","c","o","m","e"," ","o","f"," ","a"," ","r","e","g","u","l","a","t","o","r","y"," ","r","e","v","i","e","w"," ","w","o","u","l","d"," ","r","e","d","u","c","e"," ","t","h","e"," ","e","a","r","n","i","n","g","s"," ","o","f"," ","t","h","e"," ","g","r","o","u","p","s",".">>
Plain160 ==
    <<"T","h","e"," ","g","r","o","u","p"," ","s","e","l","l","s"," ","g","o","o","d","s"," ","i","n"," ","t","e","n"," ","n","a","t","i","o","n","s"," ","a","n","d"," ","o","w","n","s"," ","t","h","e"," ","p","l","a","n","t","s"," ","i","n"," ","w","h","i","c","h"," ","t","h","e"," ","g","o","o","d","s"," ","a","r","e"," ","m","a","d","e"," ","a","n","d"," ","t","h","e"," ","s","h","e","d","s"," ","i","n"," ","w","h","i","c","h"," ","t","h","e"," ","g","o","o","d","s"," ","a","r","e"," ","h","e","l","d"," ","u","n","t","i","l"," ","t","h","e"," ","b","u","y","e","r","s"," ","s","e","n","d"," ","f","o","r"," ","t","h","e","m"," ","x",".">>
Plain161 ==
    <<"T","h","e"," ","g","r","o","u","p"," ","s","e","l","l","s"," ","g","o","o","d","s"," ","i","n"," ","t","e","n"," ","n","a","t","i","o","n","s"," ","a","n","d"," ","o","w","n","s"," ","t","h","e"," ","p","l","a","n","t","s"," ","i","n"," ","w","h","i","c","h"," ","t","h","e"," ","g","o","o","d","s"," ","a","r","e"," ","m","a","d","e"," ","a","n","d"," ","t","h","e"," ","s","h","e","d","s"," ","i","n"," ","w","h","i","c","h"," ","t","h","e"," ","g","o","o","d","s"," ","a","r","e"," ","h","e","l","d"," ","u","n","t","i","l"," ","t","h","e"," ","b","u","y","e","r","s"," ","s","e","n","d"," ","f","o","r"," ","t","h","e","m"," ","x","y",".">>
Upper34 ==
    <<"R","I","S","K",":"," ","n","o","n","e"," ","o","f"," ","t","h","e"," ","p","l","a","n","t","s"," ","w","a","s"," ","s","h","u","t",".">>
NoStop ==
    <<"R","i","s","k"," ","o","f"," ","l","o","s","s"," ","w","i","t","h","o","u","t"," ","a"," ","f","u","l","l"," ","s","t","o","p">>
Two ==
    <<"V","e","r","s","i","o","n"," ","3",".","5"," ","o","f"," ","t","h","e"," ","p","l","a","n"," ","i","s"," ","i","n"," ","u","s","e","."," ","R","i","s","k"," ","i","s"," ","u","p",".">>
\* seven short sentences, six of them above the threshold
Seven ==
    <<"R","i","s","k"," ","m","a","y","."," ","R","i","s","k"," ","c","o","u","l","d","."," ","R","i","s","k"," ","m","i","g","h","t","."," ","S","u","p","p","l","y"," ","r","i","s","k","."," ","M","a","y","."," ","A","d","v","e","r","s","e"," ","r","i","s","k","."," ","E","x","p","o","s","u","r","e"," ","m","a","y",".">>

\* cue in s
Contains(s, cue) ==
    \E i \in 1..(Len(s) - Len(cue) + 1) : SubSeq(s, i, i + Len(cue) - 1) = cue

_RISK_CUES ==
    << <<"r","i","s","k">>,
       <<"u","n","c","e","r","t","a","i","n">>,
       <<"u","n","c","e","r","t","a","i","n","t","y">>,
       <<"c","o","u","l","d">>,
       <<"m","a","y">>,
       <<"m","i","g","h","t">>,
       <<"a","d","v","e","r","s","e">>,
       <<"m","a","t","e","r","i","a","l"," ","a","d","v","e","r","s","e">>,
       <<"e","x","p","o","s","u","r","e">>,
       <<"v","u","l","n","e","r","a","b">>,
       <<"d","e","p","e","n","d">>,
       <<"v","o","l","a","t","i","l">>,
       <<"f","l","u","c","t","u","a","t">>,
       <<"s","u","b","j","e","c","t"," ","t","o">>,
       <<"r","e","g","u","l","a","t","o","r","y">>,
       <<"l","i","t","i","g","a","t","i","o","n">>,
       <<"s","u","p","p","l","y">>,
       <<"c","o","s","t"," ","p","r","e","s","s","u","r","e","s">>,
       <<"c","o","m","p","e","t","i","t","i","o","n">>,
       <<"m","a","c","r","o","e","c","o","n","o","m","i","c">> >>

\* _SENTENCE_RE.finditer(txt) from position pos on: group 1 runs to the
\* first full stop that white space or the end of the text follows, and the
\* match takes the white space after it; group(1).strip() of every match
RECURSIVE SentencesFrom(_, _)
SentencesFrom(txt, pos) ==
    LET stops == {j \in pos..Len(txt) :
                    /\ txt[j] = "."
                    /\ (j = Len(txt) \/ txt[j + 1] \in WhiteSpace)}
    IN  IF stops = {} THEN <<>>
        ELSE LET j == CHOOSE x \in stops : \A y \in stops : x <= y
                 rest == {k \in (j + 1)..Len(txt) : txt[k] \notin WhiteSpace}
                 nxt == IF rest = {} THEN Len(txt) + 1
                        ELSE CHOOSE x \in rest : \A y \in rest : x <= y
             IN  <<StripChars(SubSeq(txt, pos, j))>> \o SentencesFrom(txt, nxt)

\* c.get("full") or c.get("snippet") or ""
ItemText(c) ==
    IF "full" \in DOMAIN c /\ c.full # <<>> THEN c.full
    ELSE IF "snippet" \in DOMAIN c THEN c.snippet
    ELSE <<>>

\* _sentences_with_pages(section_content): (page, sentence) pairs
RECURSIVE _sentences_with_pages(_)
_sentences_with_pages(section_content) ==
    IF section_content = <<>> THEN <<>>
    ELSE LET c == Head(section_content)
             txt == StripChars(ItemText(c))
             sents == SentencesFrom(txt, 1)
             here == IF txt = <<>> \/ c.page = 0 THEN <<>>
                     ELSE [k \in 1..Len(sents) |-> [page |-> c.page, sent |-> sents[k]]]
         IN  here \o _sentences_with_pages(Tail(section_content))

\* len(sent) / 200.0, at most 1.0
FullLength == 200
\* len(sent) < 40 costs 0.25
ShortSentence == 40
ShortPenalty == FCanon(<<1>>, -2)
\* if score > 0.8
RiskThreshold == FloatOfDecimal(<<"0",".","8">>)
\* limit: int = 10
RiskLimit == 10

\* sum(1 for cue in _RISK_CUES if cue in s_l)
CueCount(sent) ==
    Cardinality({k \in 1..Len(_RISK_CUES) : Contains(Lower(sent), _RISK_CUES[k])})

\* min(len(sent) / 200.0, 1.0) for a sentence of n > 0 characters
LengthShare(n) ==
    IF n >= FullLength THEN FloatOfInt(1) ELSE FQuotient(BOfInt(n), -1, 2)
\* the sum of the cues' 1.0 and the length share
LongScore(sent) == FAdd(FloatOfInt(CueCount(sent)), LengthShare(Len(sent)))
\* x - y for floats x, y that are zero or positive
FDiff(x, y) == IF FMagLess(x, y) THEN FNeg(FSub(y, x)) ELSE FSub(x, y)

\* the score of a short sentence with a penalty of 0.5
RiskScore_half_penalty(sent) ==
    IF Len(sent) < ShortSentence
    THEN FDiff(LongScore(sent), FCanon(<<1>>, -1)) ELSE LongScore(sent)

\* score = cues + min(len(sent) / 200.0, 1.0), less 0.25 when len(sent) < 40
RiskScore(sent) ==
    IF Len(sent) < ShortSentence THEN FDiff(LongScore(sent), ShortPenalty)
    ELSE LongScore(sent)

\* scored.sort(key=lambda x: (-x[0], x[1])): stable
RiskBefore(a, b) ==
    FLess(b.score, a.score) \/ (a.score = b.score /\ a.page <= b.page)
InsertScored(s, x) ==
    LET n == Cardinality({k \in 1..Len(s) : RiskBefore(s[k], x)}) IN
    SubSeq(s, 1, n) \o <<x>> \o SubSeq(s, n + 1, Len(s))
\* scored.sort left out
SortScored_none(s) == s
RECURSIVE SortScored(_)
SortScored(s) ==
    IF s = <<>> THEN <<>>
    ELSE InsertScored(SortScored(SubSeq(s, 1, Len(s) - 1)), s[Len(s)])

\* the (score, page, sent) triples with score > 0.8
Scored(pairs) ==
    LET all == [k \in 1..Len(pairs) |->
                  [score |-> RiskScore(pairs[k].sent), page |-> pairs[k].page,
                   sent |-> pairs[k].sent]]
    IN  SelectSeq(all, LAMBDA t : FLess(RiskThreshold, t.score))

\* extract_top_risks_from_item_1a(sections, limit) on texts given character
\* by character
extract_top_risks_from_item_1a_text(sections, limit) ==
    LET one_a == FirstSection(sections, <<"i","t","e","m"," ","1","a">>) IN
    IF one_a = <<>> THEN EmptyList
    ELSE LET top == Take(SortScored(Scored(_sentences_with_pages(one_a.content))), limit)
         IN  [k \in 1..Len(top) |-> [text |-> top[k].sent, page |-> top[k].page]]

\* ------------------------------------------------- KPI extractor, on text
\* metrics.py computed on page texts given character by character.  None is
\* <<>>; "RSQUO" is the typographic apostrophe U+2019 of the source.
None == <<>>

\* KPI_NAMES: each pattern is a sequence of words with \s+ between them
KPI_NAMES ==
    << [name |-> "revenue",
        pats |-> << <<<<"n","e","t">>, <<"s","a","l","e","s">>>>,
                    <<<<"r","e","v","e","n","u","e">>>> >>],
       [name |-> "net_income",
        pats |-> << <<<<"n","e","t">>, <<"i","n","c","o","m","e">>>>,
                    <<<<"n","e","t">>, <<"e","a","r","n","i","n","g","s">>>> >>],
       [name |-> "eps",
        pats |-> << <<<<"e","a","r","n","i","n","g","s">>, <<"p","e","r">>, <<"s","h","a","r","e">>>>,
                    <<<<"e","p","s">>>> >>],
       [name |-> "free_cash_flow",
        pats |-> << <<<<"f","r","e","e">>, <<"c","a","s","h">>, <<"f","l","o","w">>>> >>],
       [name |-> "cash",
        pats |-> << <<<<"c","a","s","h">>, <<"a","n","d">>, <<"c","a","s","h">>, <<"e","q","u","i","v","a","l","e","n","t","s">>>>,
                    <<<<"c","a","s","h">>, <<"a","n","d">>, <<"c","a","s","h","-","e","q","u","i","v","a","l","e","n","t","s">>>> >>] >>
\* tk.lower() for tk in target_keys
target_keys ==
    << <<"i","t","e","m"," ","7","."," ","m","a","n","a","g","e","m","e","n","t","RSQUO","s"," ","d","i","s","c","u","s","s","i","o","n"," ","a","n","d"," ","a","n","a","l","y","s","i","s">>,
       <<"i","t","e","m"," ","8","."," ","f","i","n","a","n","c","i","a","l"," ","s","t","a","t","e","m","e","n","t","s">>,
       <<"c","o","n","s","o","l","i","d","a","t","e","d"," ","s","t","a","t","e","m","e","n","t","s">> >>

\* re.search(pat, ln, re.I): the words of pat from position i on
RECURSIVE MatchWordsAt(_, _, _)
MatchWordsAt(ln, i, ws) ==
    LET w == Head(ws)
        j == i + Len(w)
        rest == {k \in j..Len(ln) : ln[k] \notin WhiteSpace}
    IN  /\ j - 1 <= Len(ln)
        /\ Fold(SubSeq(ln, i, j - 1)) = w
        /\ \/ Len(ws) = 1
           \/ /\ j <= Len(ln) /\ ln[j] \in WhiteSpace
              /\ rest # {}
              /\ MatchWordsAt(ln, CHOOSE k \in rest : \A k2 \in rest : k <= k2, Tail(ws))
SearchWords(ln, ws) == \E i \in 1..Len(ln) : MatchWordsAt(ln, i, ws)
\* any(re.search(pat, ln, re.I) for pat in term_patterns)
MatchesAny(ln, pats) == \E k \in 1..Len(pats) : SearchWords(ln, pats[k])

\* the end of the run of digits that starts at i, at most max digits long
RECURSIVE DigitRunEnd(_, _, _)
DigitRunEnd(ln, i, max) ==
    IF max > 0 /\ i <= Len(ln) /\ IsDigit(ln[i]) THEN DigitRunEnd(ln, i + 1, max - 1) ELSE i
\* (?:,[0-9]{3})* from position j on
RECURSIVE CommaGroupsEnd(_, _)
CommaGroupsEnd(ln, j) ==
    IF j + 3 <= Len(ln) /\ ln[j] = "," /\ DigitRunEnd(ln, j + 1, 3) = j + 4
    THEN CommaGroupsEnd(ln, j + 4) ELSE j
\* NUM_RE.search(ln).group(1), None when there is no match: the match begins
\* at the first digit of the line or at the "$" and "(" right before it
NUM_RE(ln) ==
    LET ds == {i \in 1..Len(ln) : IsDigit(ln[i])} IN
    IF ds = {} THEN None
    ELSE LET i == CHOOSE x \in ds : \A y \in ds : x <= y
             j == CommaGroupsEnd(ln, DigitRunEnd(ln, i, 3))
             k == IF j < Len(ln) /\ ln[j] = "." /\ IsDigit(ln[j + 1])
                  THEN DigitRunEnd(ln, j + 1, Len(ln)) ELSE j
         IN  SubSeq(ln, i, k - 1)

\* s.replace(c, "") and s.strip(chars)
Without(s, c) == SelectSeq(s, LAMBDA x : x # c)
StripSet(s, chars) ==
    LET I == {i \in 1..Len(s) : s[i] \notin chars} IN
    IF I = {} THEN <<>>
    ELSE SubSeq(s, CHOOSE i \in I : \A j \in I : i <= j,
                   CHOOSE i \in I : \A j \in I : i >= j)
AllDigits(s) == \A i \in 1..Len(s) : IsDigit(s[i])

\* float(s).  The digits of s are read by their values and the white space
\* around s goes; an underscore may stand between two digits; what is left
\* is a sign, then inf, infinity or nan in any case, or digits with at most
\* one point and an optional exponent.
FloatText(s) == StripSet(AsciiDigits(s), FloatSpace)
UnderscoresOk(t) ==
    \A i \in 1..Len(t) :
        t[i] = "_" => i > 1 /\ i < Len(t) /\ IsDigit(t[i - 1]) /\ IsDigit(t[i + 1])
Signless(t) == IF t # <<>> /\ t[1] \in {"+", "-"} THEN Tail(t) ELSE t
IsMantissa(m) ==
    /\ Cardinality({i \in 1..Len(m) : m[i] = "."}) <= 1
    /\ Without(m, ".") # <<>>
    /\ AllDigits(Without(m, "."))
IsExponent(e) == Signless(e) # <<>> /\ AllDigits(Signless(e))
\* the position of the exponent mark of u, Len(u) + 1 when it has none
ExponentAt(u) ==
    LET at == {i \in 1..Len(u) : u[i] \in {"e", "E"}} IN
    IF at = {} THEN Len(u) + 1 ELSE CHOOSE x \in at : \A y \in at : x <= y
MantissaOf(u) == SubSeq(u, 1, ExponentAt(u) - 1)
ExponentOf(u) == SubSeq(u, ExponentAt(u) + 1, Len(u))
IsDecimal(u) ==
    IsMantissa(MantissaOf(u)) /\ (ExponentAt(u) > Len(u) \/ IsExponent(ExponentOf(u)))
InfWords == {<<"i","n","f">>, <<"i","n","f","i","n","i","t","y">>}
NanWord == <<"n","a","n">>
IsUnsignedFloat(u) == Lower(u) \in InfWords \cup {NanWord} \/ IsDecimal(u)
\* float(s) does not raise
IsFloat(s) ==
    UnderscoresOk(FloatText(s)) /\ IsUnsignedFloat(Signless(Without(FloatText(s), "_")))

\* the digits after the point of a mantissa
Places(m) ==
    LET dot == {i \in 1..Len(m) : m[i] = "."} IN
    IF dot = {} THEN 0 ELSE Len(m) - (CHOOSE i \in dot : TRUE)
\* int(e) for the text of an exponent, empty when there is none; an exponent
\* of five digits or more counts as ExponentCap, which no mantissa of the
\* texts makes up for
ExponentCap == 10000
ExponentSize(ds) == IF Len(ds) > 4 THEN ExponentCap ELSE BToInt(BOfDigits(ds))
ExponentValue(e) ==
    IF e = <<>> THEN 0
    ELSE IF e[1] = "-" THEN 0 - ExponentSize(Significant(Tail(e)))
    ELSE ExponentSize(Significant(Signless(e)))
\* the double nearest to ds * 10^k for significant digits ds: more than 309
\* digits before the point is infinity, more than 323 zeros after it is zero
MaxDigits == 309
MinDigits == -323
FloatOfScaled(ds, k) ==
    IF ds = <<>> \/ Len(ds) + k < MinDigits THEN FZero
    ELSE IF Len(ds) + k > MaxDigits THEN FInf
    ELSE IF k >= 0 THEN FRoundRange(BMul(BOfDigits(ds), BPow10(k)), FALSE, 0)
    ELSE FRoundRangeQuotient(
             BDivPow10(BShl(BOfDigits(ds), MantissaBits + GuardBits + 4 * (0 - k)), 0 - k),
             0 - (MantissaBits + GuardBits + 4 * (0 - k)))
PyFloatDecimal(u) ==
    FloatOfScaled(Significant(Without(MantissaOf(u), ".")),
                  ExponentValue(ExponentOf(u)) - Places(MantissaOf(u)))
PyFloatUnsigned(u, neg) ==
    IF Lower(u) \in InfWords THEN [FInf EXCEPT !.neg = neg]
    ELSE IF Lower(u) = NanWord THEN FNaN
    ELSE [PyFloatDecimal(u) EXCEPT !.neg = neg]
PyFloatStripped(t) == PyFloatUnsigned(Signless(t), t # <<>> /\ t[1] = "-")
\* None when float raises
PyFloat(s) ==
    IF IsFloat(s) THEN PyFloatStripped(Without(FloatText(s), "_")) ELSE None

\* metrics._to_float(s)
Negated(v, neg) == IF v = None THEN None ELSE IF neg THEN FNeg(v) ELSE v
ToFloatOf(t) ==
    Negated(PyFloat(StripSet(t, {"(", ")", "$"})),
            StartsWith(t, <<"(">>) /\ EndsWith(t, <<")">>))
_to_float(s) == ToFloatOf(Without(s, ","))

\* t.splitlines(): every line break ends a line, "\r\n" is one line break.
\* A line begins at the start of the text and after every line break that
\* the end of the text does not follow
LineStarts(t) ==
    {i \in 1..Len(t) :
        i = 1 \/ (t[i - 1] \in LineBreaks /\ ~(t[i - 1] = "\r" /\ t[i] = "\n"))}
\* the line that begins at i runs up to the next line break
LineFrom(t, i) ==
    SubSeq(t, i, First({j \in i..Len(t) : t[j] \in LineBreaks}, Len(t) + 1) - 1)
LinesFrom(t, starts) ==
    [k \in 1..Cardinality(starts) |->
        LineFrom(t, CHOOSE i \in starts : Cardinality({j \in starts : j < i}) = k - 1)]
SplitLines(t) == SubSeq(LinesFrom(t, LineStarts(t)), 1, Cardinality(LineStarts(t)))

\* sorted(set(pages_to_scan)): the pages of the sections whose title holds
\* a target key, in ascending order
PagesToScanSet(sections_map) ==
    UNION { {sections_map[k].pages[i] : i \in DOMAIN sections_map[k].pages} :
              k \in {j \in DOMAIN sections_map :
                       \E t \in DOMAIN target_keys :
                           Contains(Lower(sections_map[j].title), target_keys[t])} }
RECURSIVE SortedSeq(_)
SortedSeq(S) ==
    IF S = {} THEN <<>>
    ELSE LET x == CHOOSE y \in S : \A z \in S : y <= z
         IN  <<x>> \o SortedSeq(S \ {x})
\* text_by_page.get(pn, ""): the last page record numbered pn wins
TextByPage(pages, pn) ==
    LET I == {i \in DOMAIN pages : pages[i].page = pn} IN
    IF I = {} THEN <<>> ELSE pages[CHOOSE i \in I : \A j \in I : i >= j].text

\* the (val, pn) hits of the lines of one page, in line order
HitOf(val, pn) == IF val = None THEN <<>> ELSE <<[val |-> val, pn |-> pn]>>
ValueOf(num) == IF num = None THEN None ELSE _to_float(num)
LineHit(ln, pats, pn) ==
    HitOf(ValueOf(IF MatchesAny(ln, pats) THEN NUM_RE(ln) ELSE None), pn)
RECURSIVE LineHits(_, _, _)
LineHits(lines, pats, pn) ==
    IF lines = <<>> THEN <<>>
    ELSE IF Len(lines) = 1 THEN LineHit(lines[1], pats, pn)
    ELSE LineHits(SubSeq(lines, 1, Len(lines) \div 2), pats, pn)
             \o LineHits(SubSeq(lines, (Len(lines) \div 2) + 1, Len(lines)), pats, pn)
RECURSIVE Hits(_, _, _)
Hits(pats, scan, pages) ==
    IF scan = <<>> THEN <<>>
    ELSE LineHits(SplitLines(TextByPage(pages, Head(scan))), pats, Head(scan))
             \o Hits(pats, Tail(scan), pages)

\* scan_for returning the first hit instead of the last
FirstOf(hits) ==
    IF hits = <<>> THEN [val |-> None, pages |-> <<>>]
    ELSE [val |-> hits[1].val, pages |-> [k \in 1..Len(hits) |-> hits[k].pn]]
scan_for_first(pats, scan, pages) == FirstOf(Hits(pats, scan, pages))

\* scan_for(term_patterns, pages)
LastOf(hits) ==
    IF hits = <<>> THEN [val |-> None, pages |-> <<>>]
    ELSE [val |-> hits[Len(hits)].val, pages |-> [k \in 1..Len(hits) |-> hits[k].pn]]
scan_for(pats, scan, pages) == LastOf(Hits(pats, scan, pages))

\* extract_kpis(doc) on texts given character by character; doc.sections is
\* the sections map as a sequence of (title, pages) entries
KpiOf(name, found) ==
    IF found.val = None THEN <<>>
    ELSE <<[name |-> name, value |-> found.val, unit |-> "USD",
            yoy |-> None, qoq |-> None, pages |-> found.pages]>>
RECURSIVE KpisFrom(_, _, _)
KpisFrom(k, scan, pages) ==
    IF k > Len(KPI_NAMES) THEN <<>>
    ELSE KpiOf(KPI_NAMES[k].name, scan_for(KPI_NAMES[k].pats, scan, pages))
             \o KpisFrom(k + 1, scan, pages)
extract_kpis_text(doc) ==
    [kpis |-> KpisFrom(1, SortedSeq(PagesToScanSet(doc.sections)), doc.pages),
     segments |-> EmptyList]

\* ---------------------------------------------------------- amount parser
\* utils/capital_structure.py on texts given character by character; the
\* one-element string "EUR" stands for the euro sign.
Euro == "EUR"
CurrencySigns == {"$", Euro}
\* the alternatives of the unit group of RE_AMOUNT, in their order
UnitAlternatives == << <<"b","i","l","l","i","o","n">>, <<"m","i","l","l","i","o","n">>, <<"t","h","o","u","s","a","n","d">>, <<"b","n">>, <<"m","m">>, <<"m">>, <<"k">> >>
\* UNIT_MULT
UNIT_MULT ==
    << [unit |-> <<"b","i","l","l","i","o","n">>, mult |-> 1000000000],
       [unit |-> <<"b","n">>, mult |-> 1000000000],
       [unit |-> <<"m","i","l","l","i","o","n">>, mult |-> 1000000],
       [unit |-> <<"m","m">>, mult |-> 1000000],
       [unit |-> <<"m">>, mult |-> 1000000],
       [unit |-> <<"t","h","o","u","s","a","n","d">>, mult |-> 1000],
       [unit |-> <<"k">>, mult |-> 1000] >>
\* UNIT_MULT.get(u), 0 for None
UnitMult(u) ==
    LET I == {i \in DOMAIN UNIT_MULT : UNIT_MULT[i].unit = u} IN
    IF I = {} THEN 0 ELSE UNIT_MULT[CHOOSE i \in I : TRUE].mult

\* x * n for an int n below 2^31
FMulInt(x, n) ==
    IF IsNaN(x) THEN x
    ELSE [FRoundRange(BMul(x.m, BOfInt(n)), FALSE, x.e) EXCEPT !.neg = x.neg]

\* capital_structure._to_float(num_str), None when float raises
amount_to_float(num_str) == PyFloat(Without(num_str, ","))

\* _amount_to_usd(num_str, unit); unit None is <<>>
TimesUnit(val, mult) ==
    IF val = None THEN None
    ELSE IF mult # 0 THEN FMulInt(val, mult) ELSE val
_amount_to_usd(num_str, unit) ==
    TimesUnit(amount_to_float(num_str), IF unit = None THEN 0 ELSE UnitMult(Lower(unit)))

\* abs(val) >= 10^k
AtLeastPow10(val, k) ==
    ~IsNaN(val) /\ ~FLess([val EXCEPT !.neg = FALSE], FloatOfInt(10 ^ k))
SignOf(val) == IF val.neg THEN <<"-">> ELSE <<>>
\* _format_human_usd(val)
_format_human_usd(val) ==
    LET a == [val EXCEPT !.neg = FALSE] IN
    IF AtLeastPow10(val, 9) THEN <<"$">> \o SignOf(val) \o Format2f(FDivPow10(a, 9)) \o <<"B">>
    ELSE IF AtLeastPow10(val, 6) THEN <<"$">> \o SignOf(val) \o Format2f(FDivPow10(a, 6)) \o <<"M">>
    ELSE IF AtLeastPow10(val, 3) THEN <<"$">> \o SignOf(val) \o Format2f(FDivPow10(a, 3)) \o <<"K">>
    ELSE <<"$">> \o SignOf(val) \o FormatGrouped0f(a)

\* the end of the run of characters of a set that starts at i
RECURSIVE RunEnd(_, _, _)
RunEnd(t, i, chars) ==
    IF i <= Len(t) /\ t[i] \in chars THEN RunEnd(t, i + 1, chars) ELSE i
\* the start of the run of white space that ends right before i, not below pos
RECURSIVE SpaceStart(_, _, _)
SpaceStart(t, i, pos) ==
    IF i > pos /\ t[i - 1] \in WhiteSpace THEN SpaceStart(t, i - 1, pos) ELSE i
\* the unit group at position k: the first alternative that matches, any case
UnitAt(t, k) ==
    LET I == {i \in DOMAIN UnitAlternatives :
                /\ k + Len(UnitAlternatives[i]) - 1 <= Len(t)
                /\ Fold(SubSeq(t, k, k + Len(UnitAlternatives[i]) - 1)) = UnitAlternatives[i]}
    IN  IF I = {} THEN None
        ELSE SubSeq(t, k, k + Len(UnitAlternatives[CHOOSE i \in I : \A j \in I : i <= j]) - 1)
\* RE_AMOUNT.finditer(text) from position pos on: the groups of every match
RECURSIVE RE_AMOUNT(_, _)
RE_AMOUNT(t, pos) ==
    LET ds == {i \in pos..Len(t) : IsDigit(t[i])} IN
    IF ds = {} THEN <<>>
    ELSE LET i == CHOOSE x \in ds : \A y \in ds : x <= y
             c == SpaceStart(t, i, pos) - 1
             cur == IF c >= pos /\ t[c] \in CurrencySigns THEN <<t[c]>> ELSE None
             j == RunEnd(t, i + 1, UnicodeDigits \cup {","})
             k == IF j < Len(t) /\ t[j] = "." /\ IsUnicodeDigit(t[j + 1])
                  THEN RunEnd(t, j + 1, UnicodeDigits) ELSE j
             u == RunEnd(t, k, WhiteSpace)
             unit == UnitAt(t, u)
         IN  <<[cur |-> cur, num |-> SubSeq(t, i, k - 1), unit |-> unit]>>
                 \o RE_AMOUNT(t, u + Len(unit))

\* the pretty string and the value of one match; usd None when unparseable
Candidate(m) ==
    [pretty |-> StripSet((IF m.cur = None THEN <<"$">> ELSE m.cur) \o m.num
                            \o (IF m.unit = None THEN <<>> ELSE <<" ">> \o m.unit),
                         WhiteSpace),
     usd |-> _amount_to_usd(m.num, m.unit)]
\* _best_amount keeping the last match that parses
LaterOf(best, c) == IF c.usd = None THEN best ELSE c
RECURSIVE BestLast(_, _)
BestLast(ms, best) ==
    IF ms = <<>> THEN best ELSE BestLast(Tail(ms), LaterOf(best, Candidate(Head(ms))))
\* the loop of _best_amount over the matches
LargerOf(best, c) ==
    IF c.usd = None THEN best
    ELSE IF best = None \/ FLess(best.usd, c.usd) THEN c ELSE best
RECURSIVE BestOf(_, _)
BestOf(ms, best) ==
    IF ms = <<>> THEN best ELSE BestOf(Tail(ms), LargerOf(best, Candidate(Head(ms))))
\* _best_amount(text): None or (pretty, usd)
_best_amount(text) == BestOf(RE_AMOUNT(text, 1), None)

\* ---------------------------------------------------------------- progress
\* i / n for ints 0 < i, 0 < n < 2^14: the double nearest to the quotient.
\* i is shifted far enough for the quotient to have bits below the mantissa
\* for every i >= 1: i * 2^s / n >= 2^(s - n.bit_length())
QuotientShift(n) == MantissaBits + GuardBits + SmallBitLen(n)
FDivShifted(d, s) == FRoundQuotient([q |-> d.q, rest |-> d.r # 0], 0 - s)
FDivInt(i, n) ==
    FDivShifted(BDivSmall(BShl(BOfInt(i), QuotientShift(n)), n), QuotientShift(n))
\* int(round(i / n * 100))
ProgressPercent(i, n) == BToInt(FScaled(FMulInt(FDivInt(i, n), 100), 0))
\* every call names the first section
ProgressCall_first(sections, i) ==
    [section |-> sections[1].title, progress |-> ProgressPercent(i, Len(sections))]
\* the dict handed to the callback for the i-th section
ProgressCall(sections, i) ==
    [section |-> sections[i].title, progress |-> ProgressPercent(i, Len(sections))]

\* ------------------------------------------------------------------- state
VARIABLES
    path,       \* the path handed to parse_pdf_with_citations
    file,       \* the page texts of the file at that path
    faults,     \* the stages whose call raises on this input
    sched,      \* "seq": extractor stages in code order; "any": in any order
    clock,      \* time.gmtime(), in seconds
    run,        \* 1 for the first parse of the input, 2 for the second
    prev,       \* outcome of the first parse, once the second has begun
    pc,         \* position inside parse_pdf_with_citations
    pages,      \* local variable pages
    anchors,    \* local variable anchors
    sections,   \* local variable sections
    analysis,   \* local variable analysis; the returned dict when pc = "done"
    ran,        \* extractor stages that have run
    call,       \* a function called on its own: its name and arguments
    ret,        \* what that call returned
    progress_callback,  \* whether the caller passed one, and the calls made to it
    DOCS,       \* app.py: the in-memory store of uploaded documents
    RESULTS,    \* app.py: the in-memory store of parse results
    DATA_DIR,   \* app.py: the documents whose saved file is in the data directory
    requests    \* app.py: the requests being served, each with its position

vars == <<path, file, faults, sched, clock, run, prev, pc, pages, anchors,
          sections, analysis, ran, call, ret, progress_callback,
          DOCS, RESULTS, DATA_DIR, requests>>
\* the stores and requests of app.py, and their state when no request is served
appVars == <<DOCS, RESULTS, DATA_DIR, requests>>
NoApp == DOCS = EmptyDict /\ RESULTS = EmptyDict /\ DATA_DIR = {} /\ requests = <<>>

\* ------------------------------------------------------------------ inputs
PdfPaths == { <<"a",".","p","d","f">>, <<"a",".","P","D","F">> }
NonPdfPaths == { <<"a",".","t","x","t">>, <<"a",".","d","o","c","x">>,
                 <<"a","p","d","f">>, <<"a",".","p","d","f",".","t","x","t">>,
                 <<"a",".","p","d">>, <<>> }

\* page texts of the documents run through the whole pipeline
PipelineTexts == { <<"Item 8">>,
                   <<"Item 8. Financial Statements", "TABLE", "TABLE">>,
                   <<"TABLE", "TABLE", "TABLE", "TABLE", "TABLE">> }

\* page texts of the documents handed to the slicer and the rescuer
SliceTexts == { <<>>, <<"Item 7">>, <<"Item 8">> }

\* _extract_pages numbers the pages 1, 2, ... in file order
_extract_pages(f) == [i \in 1..Len(f) |-> [page |-> i, text |-> f[i]]]

Files(texts, n) == UNION { [1..k -> texts] : k \in 1..n }

FaultSets == { F \in SUBSET (EarlyStages \cup Extractors) : Cardinality(F) <= MaxFaults }

\* anchor lists handed to the slicer: any items, pages and offsets
AnchorItems == { <<"1">>, <<"7">>, <<"8">> }
AnchorPositions == {0, 11}
AnchorSet(n) == [item : AnchorItems, title : {<<"T">>}, page : 1..n, pos : AnchorPositions]
AnchorLists(n) == UNION { [1..k -> AnchorSet(n)] : k \in 0..MaxAnchors }

NotYet == <<>>
NoCall == <<>>
\* progress_callback=None, as in both calls of app.py
NoCallback == [given |-> FALSE, calls |-> <<>>]

\* ----------------------------------------------------------------- actions
Start(p, f, F, sc) ==
    /\ path = p /\ file = f /\ faults = F /\ sched = sc
    /\ clock = 0 /\ run = 1 /\ prev = NotYet
    /\ pc = "start"
    /\ pages = <<>> /\ anchors = <<>> /\ sections = <<>>
    /\ analysis = NotYet /\ ran = {}
    /\ call = NoCall /\ ret = NotYet /\ progress_callback = NoCallback /\ NoApp

Init ==
    \/ \E f \in Files(PipelineTexts, MaxPages), F \in FaultSets :
          Start(<<"a",".","p","d","f">>, f, F, "seq")
    \/ \E F \in FaultSets :
          Start(<<"a",".","P","D","F">>, <<<<"Item 8">>>>, F, "seq")
    \/ \E p \in NonPdfPaths, F \in FaultSets :
          Start(p, <<<<"Item 8. Financial Statements", "TABLE", "TABLE">>>>, F, "seq")

\* "Non-PDF fallback": the early return
NonPdfFallback ==
    /\ pc = "start"
    /\ ~IsPdfPath(path)
    /\ analysis' = NonPdfResult(clock)
    /\ progress_callback' =
          IF progress_callback.given
          THEN [progress_callback EXCEPT
                  !.calls = Append(@, [section |-> DocumentTitle, progress |-> 100])]
          ELSE progress_callback
    /\ pc' = "done"
    /\ UNCHANGED <<appVars, call, ret, path, file, faults, sched, clock, run, prev, pages, anchors, sections, ran>>

\* a call outside every try block raises: the exception leaves
\* parse_pdf_with_citations
Raise(at, stage) ==
    /\ pc = at
    /\ stage \in faults
    /\ pc' = "raised"
    /\ UNCHANGED <<appVars, progress_callback, call, ret, path, file, faults, sched, clock, run, prev, pages, anchors,
                   sections, analysis, ran>>

\* "1) Pages"
ExtractPages ==
    /\ pc = "start"
    /\ IsPdfPath(path)
    /\ "pages" \notin faults
    /\ pages' = _extract_pages(file)
    /\ pc' = "anchors"
    /\ UNCHANGED <<appVars, progress_callback, call, ret, path, file, faults, sched, clock, run, prev, anchors, sections, analysis, ran>>
ExtractPagesRaises == IsPdfPath(path) /\ Raise("start", "pages")

\* "2) Anchors + sections": find_sec_anchors
FindAnchors ==
    /\ pc = "anchors"
    /\ "anchors" \notin faults
    /\ anchors' = find_sec_anchors(pages)
    /\ pc' = "slice"
    /\ UNCHANGED <<appVars, progress_callback, call, ret, path, file, faults, sched, clock, run, prev, pages, sections, analysis, ran>>
FindAnchorsRaises == Raise("anchors", "anchors")

\* "2) Anchors + sections": slice_sections
SliceSections ==
    /\ pc = "slice"
    /\ "sections" \notin faults
    /\ sections' = slice_sections(pages, anchors)
    /\ pc' = "rescue"
    /\ UNCHANGED <<appVars, progress_callback, call, ret, path, file, faults, sched, clock, run, prev, pages, anchors, analysis, ran>>
SliceSectionsRaises == Raise("slice", "sections")

\* "2b) Rescue Items 7 / 7A / 8"
InjectSynthetic ==
    /\ pc = "rescue"
    /\ "rescue" \notin faults
    /\ sections' = _inject_synthetic_sections(sections, pages)
    /\ pc' = IF progress_callback.given /\ sections' # <<>> THEN "progress" ELSE "base"
    /\ UNCHANGED <<appVars, progress_callback, call, ret, path, file, faults, sched, clock, run, prev, pages, anchors, analysis, ran>>
InjectSyntheticRaises == Raise("rescue", "rescue")

\* "Optional progress": one turn of the loop, the call for the next section
ReportProgress ==
    /\ pc = "progress"
    /\ Len(progress_callback.calls) < Len(sections)
    /\ progress_callback' =
          [progress_callback EXCEPT
             !.calls = Append(@, ProgressCall(sections, Len(progress_callback.calls) + 1))]
    /\ pc' = IF Len(progress_callback.calls) + 1 = Len(sections) THEN "base" ELSE "progress"
    /\ UNCHANGED <<appVars, call, ret, path, file, faults, sched, clock, run, prev, pages, anchors,
                   sections, analysis, ran>>

\* "3) Base analysis"
BuildBase ==
    /\ pc = "base"
    /\ analysis' = BaseAnalysis(clock, pages, anchors, sections)
    /\ pc' = "extract"
    /\ UNCHANGED <<appVars, progress_callback, call, ret, path, file, faults, sched, clock, run, prev, pages, anchors, sections, ran>>

\* stage s is next: in code order, or any stage that has not run
CanRun(s) ==
    /\ pc = "extract"
    /\ s \notin ran
    /\ sched = "seq" => ran = StagesBefore(s)

RunStage(s, result) ==
    /\ CanRun(s)
    /\ analysis' = result.analysis
    /\ ran' = ran \cup {s}
    /\ pc' = IF result.escapes THEN "raised" ELSE pc
    /\ UNCHANGED <<appVars, progress_callback, call, ret, path, file, faults, sched, clock, run, prev, pages, anchors, sections>>

Kpi == RunStage("kpi", StageKpi(analysis, "kpi" \in faults))
Risks == RunStage("risks", StageRisks(analysis, sections, "risks" \in faults))
FinancialsStage ==
    RunStage("financials", StageFinancials(analysis, sections, pages, "financials" \in faults))
NonGaap == RunStage("non_gaap", StageNonGaap(analysis, sections, "non_gaap" \in faults))
MarketRisk == RunStage("market_risk", StageMarketRisk(analysis, sections, "market_risk" \in faults))
Auditor == RunStage("auditor", StageAuditor(analysis, sections, "auditor" \in faults))
Legal == RunStage("legal", StageLegal(analysis, sections, "legal" \in faults))
CapitalStructure ==
    RunStage("capital_structure",
             StageCapitalStructure(analysis, pages, "capital_structure" \in faults))

\* return analysis
Return ==
    /\ pc = "extract"
    /\ ran = Extractors
    /\ pc' = "done"
    /\ UNCHANGED <<appVars, progress_callback, call, ret, path, file, faults, sched, clock, run, prev, pages, anchors,
                   sections, analysis, ran>>

\* the caller parses the same input once more, at the same or a later time
ParseAgain ==
    /\ pc \in {"done", "raised"}
    /\ run = 1
    /\ run' = 2
    /\ prev' = [pc |-> pc, analysis |-> analysis]
    /\ \E d \in 0..MaxClock : clock' = clock + d
    /\ pc' = "start"
    /\ pages' = <<>> /\ anchors' = <<>> /\ sections' = <<>>
    /\ analysis' = NotYet /\ ran' = {}
    /\ UNCHANGED <<appVars, progress_callback, call, ret, path, file, faults, sched>>

Next ==
    \/ NonPdfFallback
    \/ ExtractPages \/ ExtractPagesRaises
    \/ FindAnchors \/ FindAnchorsRaises
    \/ SliceSections \/ SliceSectionsRaises
    \/ InjectSynthetic \/ InjectSyntheticRaises
    \/ BuildBase
    \/ Kpi \/ Risks \/ FinancialsStage \/ NonGaap \/ MarketRisk \/ Auditor \/ Legal
    \/ CapitalStructure
    \/ Return
    \/ ParseAgain

Spec == Init /\ [][Next]_vars

TypeOK == pc \in {"start", "anchors", "slice", "rescue", "progress", "base", "extract", "done",
                  "raised",
                  "call", "returned", "app"}

\* The slicer and the rescuer on their own: any anchor list over any document
InitSections ==
    \E f \in Files(SliceTexts, MaxPages) : \E al \in AnchorLists(Len(f)) :
        /\ path = <<"a",".","p","d","f">> /\ file = f /\ faults = {} /\ sched = "seq"
        /\ clock = 0 /\ run = 1 /\ prev = NotYet
        /\ pc = "slice"
        /\ pages = _extract_pages(f) /\ anchors = al /\ sections = <<>>
        /\ analysis = NotYet /\ ran = {}
        /\ call = NoCall /\ ret = NotYet /\ progress_callback = NoCallback /\ NoApp
NextSections == SliceSections \/ InjectSynthetic
SpecSections == InitSections /\ [][NextSections]_vars

\* The anchor detector on its own: pages numbered in any order, also beyond
\* the front-matter cutoff
AnchorTexts == { <<"Item 7. MD&A ..... 12", "Item 7. MD&A">>,
                 <<"Item 7A. Market Risk", " ", "item 7a. market risk">>,
                 <<"item 7a. market risk", "Item 7. MD&A">>,
                 <<"Table of Contents", "Item 7. MD&A">>,
                 <<"Item 1. Business", "Item 1A. Risk Factors", "Item 7. MD&A",
                   "Item 7A. Market Risk", "Item 8. Financial Statements">>,
                 <<"Some text.", "Item 7. MD&A">> }
PageNums == (1..MaxPages) \cup {SkipTocPagesUpTo + 1}
PageSeqs(n) == UNION { [1..k -> [page : PageNums, text : AnchorTexts]] : k \in 0..n }
InitAnchors ==
    \E ps \in PageSeqs(MaxPages) :
        /\ path = <<"a",".","p","d","f">> /\ file = [k \in 1..Len(ps) |-> ps[k].text]
        /\ faults = {} /\ sched = "seq"
        /\ clock = 0 /\ run = 1 /\ prev = NotYet
        /\ pc = "anchors"
        /\ pages = ps /\ anchors = <<>> /\ sections = <<>>
        /\ analysis = NotYet /\ ran = {}
        /\ call = NoCall /\ ret = NotYet /\ progress_callback = NoCallback /\ NoApp
NextAnchors == FindAnchors
SpecAnchors == InitAnchors /\ [][NextAnchors]_vars

\* The slicer on its own: anchor lists in any order, also with anchors on
\* pages behind the last page of the document
SlicerAnchors == [item : {<<"1">>}, title : {<<"T">>}, page : 1..(MaxPages + 1), pos : {0}]
SlicerAnchorLists == UNION { [1..k -> SlicerAnchors] : k \in 0..MaxAnchors }
SlicerFiles == {<<>>} \cup Files({<<>>, <<"Some text.">>}, MaxPages)
InitSlicer ==
    \E f \in SlicerFiles, al \in SlicerAnchorLists :
        /\ path = <<"a",".","p","d","f">> /\ file = f /\ faults = {} /\ sched = "seq"
        /\ clock = 0 /\ run = 1 /\ prev = NotYet
        /\ pc = "slice"
        /\ pages = _extract_pages(f) /\ anchors = al /\ sections = <<>>
        /\ analysis = NotYet /\ ran = {}
        /\ call = NoCall /\ ret = NotYet /\ progress_callback = NoCallback /\ NoApp
NextSlicer == SliceSections
SpecSlicer == InitSlicer /\ [][NextSlicer]_vars

\* A function called on its own: nothing of a parse is in progress
NoParse ==
    /\ path = <<>> /\ file = <<>> /\ faults = {} /\ sched = "seq"
    /\ clock = 0 /\ run = 1 /\ prev = NotYet
    /\ pages = <<>> /\ anchors = <<>> /\ sections = <<>>
    /\ analysis = NotYet /\ ran = {}
    /\ progress_callback = NoCallback /\ NoApp
parseVars == <<path, file, faults, sched, clock, run, prev, pages, anchors,
               sections, analysis, ran, progress_callback, appVars>>

\* The risk extractor on its own: one section of up to MaxPages pages, each
\* page holding one of the passages (two pages of Seven hold more sentences
\* than the limit keeps), under "full" (sliced sections) or under
\* "snippet" only (rescued sections)
RiskTexts == {Risk30, Plain30, Adverse90, Plain160, Plain161, Upper34, NoStop, Two, Seven}
RiskTitles == { <<"I","t","e","m"," ","1","A","."," ","R","i","s","k"," ","F","a","c","t","o","r","s">>,
                <<"I","t","e","m"," ","1","."," ","B","u","s","i","n","e","s","s">> }
RiskContent(texts, key) ==
    [k \in 1..Len(texts) |->
        IF key = "full" THEN [page |-> k, snippet |-> <<>>, full |-> texts[k]]
        ELSE [page |-> k, snippet |-> texts[k]]]
InitRisk ==
    \E t \in RiskTitles, key \in {"full", "snippet"} :
    \E texts \in UNION { [1..k -> RiskTexts] : k \in 0..MaxPages } :
        /\ NoParse
        /\ pc = "call"
        /\ call = [fn |-> "extract_top_risks_from_item_1a",
                   sections |-> <<[title |-> t, start_page |-> 1,
                                   end_page |-> Len(texts),
                                   content |-> RiskContent(texts, key)]>>]
        /\ ret = NotYet
ExtractTopRisks ==
    /\ pc = "call" /\ call.fn = "extract_top_risks_from_item_1a"
    /\ ret' = extract_top_risks_from_item_1a_text(call.sections, RiskLimit)
    /\ pc' = "returned"
    /\ UNCHANGED <<call, parseVars>>
NextRisk == ExtractTopRisks
SpecRisk == InitRisk /\ [][NextRisk]_vars

\* The KPI extractor on its own: up to MaxPages page records numbered 3 or 5
\* in any order, and a sections map that puts both pages, or page 5 only,
\* under Item 7 and Item 8
Sales1000 ==
    <<"N","e","t"," ","s","a","l","e","s"," ","$","1",",","0","0","0">>
Sales1200 ==
    <<"N","e","t"," ","s","a","l","e","s"," ","$","1",",","2","0","0">>
GrewThenRevenue ==
    <<"N","e","t"," ","s","a","l","e","s"," ","g","r","e","w","\n","R","e","v","e","n","u","e"," ","w","a","s"," ","$","9","0","0",".","5"," ","i","n"," ","2","0","2","3">>
Sales1200Plain ==
    <<"N","e","t"," ","s","a","l","e","s"," ","1","2","0","0","\n","n","e","t"," ","NBSP","i","n","c","o","m","e"," ","(","5","0","0",")">>
RevenueThenSales ==
    <<"R","e","v","e","n","u","e"," ","$","2","\r","N","e","t"," ","s","a","l","e","s"," ","$","3">>
DottedIncome ==
    <<"N","e","t"," ","DOTTEDI","n","c","o","m","e"," ","6">>
NoKpi ==
    <<"S","o","m","e"," ","t","e","x","t",".">>
KpiTexts == {Sales1000, Sales1200, GrewThenRevenue, Sales1200Plain, RevenueThenSales,
             DottedIncome, NoKpi}
KpiPageNums == {3, 5}
KpiSectionMaps ==
    { <<[title |-> Title8, pages |-> <<3, 4, 5>>]>>,
      <<[title |-> Title7, pages |-> <<3, 4>>], [title |-> Title8, pages |-> <<5>>]>>,
      <<[title |-> <<"I","t","e","m"," ","1","."," ","B","u","s","i","n","e","s","s">>, pages |-> <<3, 4>>], [title |-> Title8, pages |-> <<5>>]>> }
InitKpi ==
    \E sm \in KpiSectionMaps :
    \E ps \in UNION { [1..k -> [page : KpiPageNums, text : KpiTexts]] : k \in 0..MaxPages } :
        /\ NoParse
        /\ pc = "call"
        /\ call = [fn |-> "extract_kpis", doc |-> [sections |-> sm, pages |-> ps]]
        /\ ret = NotYet
ExtractKpis ==
    /\ pc = "call" /\ call.fn = "extract_kpis"
    /\ ret' = extract_kpis_text(call.doc)
    /\ pc' = "returned"
    /\ UNCHANGED <<call, parseVars>>
NextKpi == ExtractKpis
SpecKpi == InitKpi /\ [][NextKpi]_vars

\* The amount parser on its own: _amount_to_usd, _best_amount and
\* _format_human_usd of capital_structure.py and _to_float of metrics.py,
\* each called once
PlainLiterals ==
    { <<"5","0","0">>,
      <<"1",",","2","5","0",",","0","0","0">>,
      <<"1",".","2","5">>,
      <<"4",".","1">>,
      <<"9","9","9",".","5">>,
      <<"0">>,
      <<"3">>,
      <<"1","2",",","3","4","5",".","6","7","8">> }
OtherLiterals ==
    { <<"(","5","0","0",")">>,
      <<"(","1",",","2","5","0",",","0","0","0",")">>,
      <<"$","1",",","2","5","0",",","0","0","0">> }
KnownUnits ==
    { <<"b","i","l","l","i","o","n">>,
      <<"b","n">>,
      <<"m","i","l","l","i","o","n">>,
      <<"m","m">>,
      <<"m">>,
      <<"t","h","o","u","s","a","n","d">>,
      <<"k">>,
      <<"M","i","l","l","i","o","n">>,
      <<"B","N">>,
      <<"K">>,
      <<"KELVIN">> }
OtherUnits ==
    { <<"b","i","l","l","i","o","n","s">>,
      <<"x">>,
      <<"m","DOTTEDI","l","l","DOTTEDI","o","n">> }
AmountTexts ==
    { <<"$","1",",","2","5","0",",","0","0","0">>,
      <<"$","1",".","2","5"," ","m","i","l","l","i","o","n">>,
      <<"(","5","0","0",")">>,
      <<"$","1",".","2","5"," ","m","i","l","l","i","o","n"," ","a","n","d"," ","$","3"," ","b","n">>,
      <<"7"," ","m","i","l","l","i","o","n"," ","7",",","0","0","0",",","0","0","0">>,
      <<"n","o"," ","a","m","o","u","n","t">>,
      <<"3"," ","k"," ","2"," ","m">>,
      <<"EUR","2"," ","t","h","o","u","s","a","n","d">>,
      <<"4",".","1"," ","m","i","l","l","i","o","n">>,
      <<"1","2"," ","m","o","n","t","h","s">>,
      <<" "," ","$"," ","5"," ","B","n",","," ","6",".","5","m","m">>,
      <<"5"," ","m","DOTTEDI","l","l","DOTTEDI","o","n">> }
FloatStrings ==
    { <<"(","5","0","0",")">>,
      <<"5","0","0">>,
      <<"$","5","0","0">>,
      <<"(","$","1",",","2","5","0",".","5",")">>,
      <<"(">>,
      <<"a","b","c">>,
      <<"-","3">>,
      <<"(","4",".","1",")">>,
      <<"1","e","5">>,
      <<"(","1","E","2",")">>,
      <<"1","_","0","0","0">>,
      <<"i","n","f">>,
      <<"DOTTEDI","n","f">>,
      <<"NBSP","5","0","0","\r">> }
FormatValues ==
    {_amount_to_usd(n, u) : n \in PlainLiterals,
                            u \in {None, <<"k">>, <<"m">>, <<"b","n">>}}
AmountCalls ==
    [fn : {"_amount_to_usd"}, num_str : PlainLiterals \cup OtherLiterals,
     unit : {None} \cup KnownUnits \cup OtherUnits]
      \cup [fn : {"_best_amount"}, text : AmountTexts]
      \cup [fn : {"_format_human_usd"}, val : FormatValues]
      \cup [fn : {"_to_float"}, s : FloatStrings]
InitAmount ==
    \E c \in AmountCalls :
        /\ NoParse /\ pc = "call" /\ call = c /\ ret = NotYet
AmountToUsd ==
    /\ pc = "call" /\ call.fn = "_amount_to_usd"
    /\ ret' = _amount_to_usd(call.num_str, call.unit)
    /\ pc' = "returned"
    /\ UNCHANGED <<call, parseVars>>
BestAmount ==
    /\ pc = "call" /\ call.fn = "_best_amount"
    /\ ret' = _best_amount(call.text)
    /\ pc' = "returned"
    /\ UNCHANGED <<call, parseVars>>
FormatHumanUsd ==
    /\ pc = "call" /\ call.fn = "_format_human_usd"
    /\ ret' = _format_human_usd(call.val)
    /\ pc' = "returned"
    /\ UNCHANGED <<call, parseVars>>
ToFloat ==
    /\ pc = "call" /\ call.fn = "_to_float"
    /\ ret' = _to_float(call.s)
    /\ pc' = "returned"
    /\ UNCHANGED <<call, parseVars>>
NextAmount == AmountToUsd \/ BestAmount \/ FormatHumanUsd \/ ToFloat
SpecAmount == InitAmount /\ [][NextAmount]_vars

\* spans_from_anchors on its own: any anchor list and any last page
SpanAnchors == [item : {<<"1">>, <<"7">>}, title : {<<"T">>}, page : 1..(MaxPages + 1), pos : {0}]
SpanAnchorLists == UNION { [1..k -> SpanAnchors] : k \in 0..MaxAnchors }
InitSpans ==
    \E al \in SpanAnchorLists, lp \in 1..(MaxPages + 1) :
        /\ NoParse /\ pc = "call"
        /\ call = [fn |-> "spans_from_anchors", anchors |-> al, last_page |-> lp]
        /\ ret = NotYet
SpansFromAnchors ==
    /\ pc = "call" /\ call.fn = "spans_from_anchors"
    /\ ret' = spans_from_anchors(call.anchors, call.last_page)
    /\ pc' = "returned"
    /\ UNCHANGED <<call, parseVars>>
NextSpans == SpansFromAnchors
SpecSpans == InitSpans /\ [][NextSpans]_vars

\* slice_sections on its own over pages numbered freely (absent and repeated
\* numbers, blank pages, pages padded with blank lines, a page longer than
\* the snippet) and anchors on any of the pages or behind them
LongText == [i \in 1..12 |-> "TABLE"]
\* a page whose first 1200 characters end with the "\n" after a whole line
NewlineAt1200 == [i \in 1..21 |-> IF i <= 10 THEN "TABLE" ELSE "Some text."]
ContentTexts == { <<>>, <<" ">>, <<"Some text.">>, <<" ", "Some text.", " ">>, LongText,
                  NewlineAt1200 }
ContentPageNums == {1, 2}
ContentAnchors == [item : {<<"1">>}, title : {<<"T">>}, page : {1, 2, 3}, pos : {0}]
InitContent ==
    \E ps \in UNION { [1..k -> [page : ContentPageNums, text : ContentTexts]] : k \in 0..MaxPages } :
    \E al \in UNION { [1..k -> ContentAnchors] : k \in 0..MaxAnchors } :
        /\ path = <<"a",".","p","d","f">> /\ file = [k \in 1..Len(ps) |-> ps[k].text]
        /\ faults = {} /\ sched = "seq"
        /\ clock = 0 /\ run = 1 /\ prev = NotYet
        /\ pc = "slice"
        /\ pages = ps /\ anchors = al /\ sections = <<>>
        /\ analysis = NotYet /\ ran = {}
        /\ call = NoCall /\ ret = NotYet /\ progress_callback = NoCallback /\ NoApp
NextContent == SliceSections
SpecContent == InitContent /\ [][NextContent]_vars

\* slice_sections without anchors, over documents of up to one page more
\* than the preview holds
PreviewTexts == { <<>>, LongText, NewlineAt1200 }
InitPreview ==
    \E f \in UNION { [1..k -> PreviewTexts] : k \in 0..(PreviewPages + 1) } :
        /\ path = <<"a",".","p","d","f">> /\ file = f /\ faults = {} /\ sched = "seq"
        /\ clock = 0 /\ run = 1 /\ prev = NotYet
        /\ pc = "slice"
        /\ pages = _extract_pages(f) /\ anchors = <<>> /\ sections = <<>>
        /\ analysis = NotYet /\ ran = {}
        /\ call = NoCall /\ ret = NotYet /\ progress_callback = NoCallback /\ NoApp
NextPreview == SliceSections
SpecPreview == InitPreview /\ [][NextPreview]_vars

\* Detector, slicer and rescuer in a row, as parse_pdf_with_citations runs
\* them: the rescuer gets the sections of the detector's anchors
RescueTexts == { <<"Some text.">>, <<"Item 7">>, <<"Item 8">>,
                 <<"Item 7. MD&A">>, <<"Item 7A. Market Risk">>,
                 <<"Item 8. Financial Statements">>,
                 <<"Item 7. MD&A", "Item 7A. Market Risk">>,
                 <<"Item 7. MD&A", "Item 7A. Market Risk", "Item 8. Financial Statements">> }
InitRescue ==
    \E f \in Files(RescueTexts, MaxPages) :
        /\ path = <<"a",".","p","d","f">> /\ file = f /\ faults = {} /\ sched = "seq"
        /\ clock = 0 /\ run = 1 /\ prev = NotYet
        /\ pc = "anchors"
        /\ pages = _extract_pages(f) /\ anchors = <<>> /\ sections = <<>>
        /\ analysis = NotYet /\ ran = {}
        /\ call = NoCall /\ ret = NotYet /\ progress_callback = NoCallback /\ NoApp
NextRescue == FindAnchors \/ SliceSections \/ InjectSynthetic
SpecRescue == InitRescue /\ [][NextRescue]_vars

\* parse_pdf_with_citations called with or without a progress callback: on a
\* path that is no PDF, and on a document whose anchor list has up to
\* MaxSections anchors of distinct item codes, four to a page
Letters == <<"A","B","C","D","E","F","G","H","I","J","K","L","M","N","O","P","Q","R","S","T",
             "U","V","W","X","Y","Z">>
TwoDigits(k) ==
    IF k < 10 THEN <<DigitChars[k + 1]>>
    ELSE <<DigitChars[(k \div 10) + 1], DigitChars[(k % 10) + 1]>>
\* the k-th item code: 1 .. 99, then 0A .. 99A, 0B ..
NthCode(k) ==
    IF k < 100 THEN TwoDigits(k)
    ELSE Append(TwoDigits(k % 100), Letters[k \div 100])
ProgressAnchors(n) ==
    [k \in 1..n |-> [item |-> NthCode(k), title |-> <<"T">>,
                     page |-> (k + 3) \div 4, pos |-> 11 * ((k - 1) % 4)]]
ProgressFile == [k \in 1..((MaxSections + 3) \div 4) |-> <<"Some text.">>]
InitProgress ==
    \E g \in BOOLEAN :
        /\ faults = {} /\ sched = "seq"
        /\ clock = 0 /\ run = 1 /\ prev = NotYet
        /\ sections = <<>> /\ analysis = NotYet /\ ran = {}
        /\ call = NoCall /\ ret = NotYet
        /\ progress_callback = [given |-> g, calls |-> <<>>] /\ NoApp
        /\ \/ /\ path \in NonPdfPaths /\ file = <<<<"Some text.">>>>
              /\ pc = "start" /\ pages = <<>> /\ anchors = <<>>
           \/ /\ path = <<"a",".","p","d","f">> /\ file = ProgressFile
              /\ pc = "slice" /\ pages = _extract_pages(ProgressFile)
              /\ \E n \in 0..MaxSections : anchors = ProgressAnchors(n)
NextProgress ==
    \/ NonPdfFallback
    \/ SliceSections
    \/ InjectSynthetic
    \/ ReportProgress
    \/ BuildBase
    \/ Kpi \/ Risks \/ FinancialsStage \/ NonGaap \/ MarketRisk \/ Auditor \/ Legal
    \/ CapitalStructure
    \/ Return
SpecProgress == InitProgress /\ [][NextProgress]_vars

\* ------------------------------------------------------------------ tables
\* Page texts are sequences of characters. "NBSP" stands for the no-break,
\* thin, figure and narrow no-break spaces and "SHY" for the soft hyphen.
NbspLike == {"NBSP"}
Blanks == {" ", "\t"}
Spaced(t) == [i \in 1..Len(t) |-> IF t[i] \in NbspLike THEN " " ELSE t[i]]
\* re.sub(r"[ \t]+", " ", t): "" marks the characters that go
Collapsed(t) ==
    [i \in 1..Len(t) |->
        IF t[i] \notin Blanks THEN t[i]
        ELSE IF i > 1 /\ t[i - 1] \in Blanks THEN "" ELSE " "]
\* _normalize_text(t): the space-like characters become spaces, soft hyphens
\* go, runs of spaces and tabs become one space
_normalize_text(t) ==
    SelectSeq(Collapsed(Without(Spaced(t), "SHY")), LAMBDA c : c # "")

\* the position after an optional c at i
OptAt(s, i, c) == IF i <= Len(s) /\ s[i] = c THEN i + 1 ELSE i
\* \d[\d,]*\.?\d*%?\)? from the digit at d on: the position after the match
NumTokenTail(s, d) ==
    OptAt(s, OptAt(s, RunEnd(s, OptAt(s, RunEnd(s, d + 1, UnicodeDigits \cup {","}), "."),
                             UnicodeDigits), "%"), ")")
\* _NUM_TOKEN.match(s, i): the position after the match, 0 when there is none
NumTokenEnd(s, i) ==
    IF OptAt(s, OptAt(s, OptAt(s, i, "("), "$"), "-") <= Len(s)
       /\ IsUnicodeDigit(s[OptAt(s, OptAt(s, OptAt(s, i, "("), "$"), "-")])
    THEN NumTokenTail(s, OptAt(s, OptAt(s, OptAt(s, i, "("), "$"), "-"))
    ELSE 0
\* _NUM_TOKEN.findall(s) from position i on
RECURSIVE NumTokensFrom(_, _)
NumTokenAt(s, i) ==
    <<SubSeq(s, i, NumTokenEnd(s, i) - 1)>> \o NumTokensFrom(s, NumTokenEnd(s, i))
NumTokensFrom(s, i) ==
    IF \A k \in i..Len(s) : NumTokenEnd(s, k) = 0 THEN <<>>
    ELSE NumTokenAt(s, First({k \in i..Len(s) : NumTokenEnd(s, k) # 0}, 0))
_NUM_TOKEN(s) == NumTokensFrom(s, 1)

\* s.split(c)
RECURSIVE Split(_, _)
Split(s, c) ==
    LET at == {i \in 1..Len(s) : s[i] = c} IN
    IF at = {} THEN <<s>>
    ELSE LET i == CHOOSE x \in at : \A y \in at : x <= y
         IN  <<SubSeq(s, 1, i - 1)>> \o Split(SubSeq(s, i + 1, Len(s)), c)
\* re.split(r"\s{2,}", s)
RECURSIVE SplitGaps(_)
SplitGaps(s) ==
    LET at == {i \in 1..(Len(s) - 1) : s[i] \in WhiteSpace /\ s[i + 1] \in WhiteSpace} IN
    IF at = {} THEN <<s>>
    ELSE LET i == CHOOSE x \in at : \A y \in at : x <= y
         IN  <<SubSeq(s, 1, i - 1)>>
             \o SplitGaps(SubSeq(s, RunEnd(s, i, WhiteSpace), Len(s)))
\* [c.strip() for c in cols]
StripAll(cols) == [k \in 1..Len(cols) |-> StripChars(cols[k])]
\* s.find(t), 1-based; 0 when t is not in s
Find(s, t) ==
    LET at == {i \in 1..(Len(s) - Len(t) + 1) : SubSeq(s, i, i + Len(t) - 1) = t} IN
    IF at = {} THEN 0 ELSE CHOOSE x \in at : \A y \in at : x <= y
\* the numeric-tail split: the text before the first token, then the tokens
NumericTail(line, nums) ==
    (IF StripChars(SubSeq(line, 1, Find(line, nums[1]) - 1)) = <<>> THEN <<>>
     ELSE <<StripChars(SubSeq(line, 1, Find(line, nums[1]) - 1))>>)
    \o StripAll(nums)
SplitColsOf(line, parts, nums) ==
    IF \E i \in 1..Len(line) : line[i] = "\t" THEN StripAll(Split(line, "\t"))
    ELSE IF Len(parts) >= 3 THEN parts
    ELSE IF Len(nums) >= 2 THEN NumericTail(line, nums)
    ELSE parts
_split_cols(line) ==
    SelectSeq(SplitColsOf(line, StripAll(SplitGaps(line)), _NUM_TOKEN(line)),
              LAMBDA c : c # <<>>)
_count_numeric_tokens(s) == Len(_NUM_TOKEN(s))
_looks_table_line(line) ==
    Len(_split_cols(line)) >= 3 \/ _count_numeric_tokens(line) >= 2

\* the cells that stand for no amount: "EMDASH" is U+2014, "ENDASH" U+2013
Dashes == {<<"-">>, <<"EMDASH">>, <<"ENDASH">>}
\* _is_numeric_cell from line 61 on
Unparenthesised(ss) ==
    IF StartsWith(ss, <<"(">>) /\ EndsWith(ss, <<")">>) THEN SubSeq(ss, 2, Len(ss) - 1) ELSE ss
Unpercented(ss) == IF EndsWith(ss, <<"%">>) THEN SubSeq(ss, 1, Len(ss) - 1) ELSE ss
_is_numeric_cell(s) ==
    \/ StripChars(s) \in {<<>>} \cup Dashes
    \/ IsFloat(Unpercented(Unparenthesised(
           StripChars(Without(Without(StripChars(s), ","), "$")))))

\* s.rstrip(chars)
RStripSet(s, chars) ==
    LET I == {i \in 1..Len(s) : s[i] \notin chars} IN
    IF I = {} THEN <<>> ELSE SubSeq(s, 1, CHOOSE i \in I : \A j \in I : i >= j)
\* the cells of values that count as non-numeric in _non_numeric_ratio
NonNumericCell(c) ==
    LET cc == RStripSet(StripChars(Without(Without(Without(Without(c, ","), "("), ")"), "$")),
                        {"%"})
    IN  cc \notin {<<>>} \cup Dashes /\ ~IsFloat(cc)
\* _non_numeric_ratio(values) as the fraction num / den
_non_numeric_ratio(values) ==
    IF values = <<>> THEN [num |-> 1, den |-> 1]
    ELSE [num |-> Cardinality({k \in 1..Len(values) : NonNumericCell(values[k])}),
          den |-> Max2(1, Len(values))]

\* max(len(r) for r in rows)
MaxWidth(rows) ==
    CHOOSE w \in {Len(rows[k]) : k \in 1..Len(rows)} : \A k \in 1..Len(rows) : Len(rows[k]) <= w
\* r[j] if j < len(r) else "", for the 1-based column j
CellAt(r, j) == IF j <= Len(r) THEN r[j] ELSE <<>>
\* the columns of the padded rows that hold text in some row, in order
KeptColumns(rows, w) ==
    SelectSeq([j \in 1..w |-> j],
              LAMBDA j : \E k \in 1..Len(rows) : StripChars(CellAt(rows[k], j)) # <<>>)
GridOf(rows, keep) ==
    [k \in 1..Len(rows) |-> [i \in 1..Len(keep) |-> StripChars(CellAt(rows[k], keep[i]))]]
\* [[c.strip() for c in r] for r in grid]
StripRows(grid) == [k \in 1..Len(grid) |-> StripAll(grid[k])]
NonEmptyRows(grid) ==
    SelectSeq(StripRows(grid), LAMBDA r : \E j \in 1..Len(r) : r[j] # <<>>)
_clean_grid(grid) ==
    IF NonEmptyRows(grid) = <<>> THEN <<>>
    ELSE GridOf(NonEmptyRows(grid), KeptColumns(NonEmptyRows(grid), MaxWidth(NonEmptyRows(grid))))

\* sep.join(cells)
RECURSIVE Join(_, _)
Join(cells, sep) ==
    IF cells = <<>> THEN <<>>
    ELSE IF Len(cells) = 1 THEN cells[1]
    ELSE Join(SubSeq(cells, 1, Len(cells) \div 2), sep) \o sep
             \o Join(SubSeq(cells, (Len(cells) \div 2) + 1, Len(cells)), sep)

\* The sets of end positions (exclusive) of the matches that begin at i of a
\* pattern given as a sequence of sets of lower-case words with \s+ between
\* them, any case
RECURSIVE AltsEnds(_, _, _)
AfterWord(s, j, rest) ==
    IF rest = <<>> THEN {j}
    ELSE IF j <= Len(s) /\ s[j] \in WhiteSpace THEN AltsEnds(s, RunEnd(s, j, WhiteSpace), rest)
    ELSE {}
AltsEnds(s, i, alts) ==
    UNION { AfterWord(s, i + Len(w), Tail(alts)) :
            w \in { x \in Head(alts) : /\ i + Len(x) - 1 <= Len(s)
                                       /\ FoldChar(s[i]) = x[1]
                                       /\ Fold(SubSeq(s, i, i + Len(x) - 1)) = x } }
SearchAlts(s, alts) == \E i \in 1..Len(s) : AltsEnds(s, i, alts) # {}

\* _PERIOD_HINT without its years; an optional ending at the end of an
\* alternative does not change what search finds
PeriodWords ==
    { << {<<"y","e","a","r","s">>, <<"y","e","a","r">>}, {<<"e","n","d","e","d">>} >>,
      << {<<"a","s">>}, {<<"o","f">>} >>,
      << {<<"t","h","r","e","e">>, <<"t","w","e","l","v","e">>, <<"s","i","x">>, <<"n","i","n","e">>}, {<<"m","o","n","t","h","s">>} >>,
      << {<<"d","e","c">>, <<"s","e","p">>, <<"m","a","r">>, <<"j","u","n">>} >> }
\* 201\d|202\d
YearAt(s, i) ==
    /\ i + 3 <= Len(s)
    /\ SubSeq(s, i, i + 2) \in {<<"2","0","1">>, <<"2","0","2">>}
    /\ IsUnicodeDigit(s[i + 3])
\* _PERIOD_HINT.search(s) is not None
_PERIOD_HINT(s) ==
    \/ \E p \in PeriodWords : SearchAlts(s, p)
    \/ \E i \in 1..Len(s) : YearAt(s, i)

\* the cell merged from the cells a and b of the two header rows
MergedCell(a, b) ==
    IF a # <<>> /\ b # <<>> /\ a # b THEN a \o <<" ">> \o b
    ELSE IF a # <<>> THEN a ELSE b
\* the header merged from rows r0 and r1: the zipped cells, then the rest of
\* the longer row
MergedHeader(r0, r1) ==
    [j \in 1..Max2(Len(r0), Len(r1)) |->
        IF j <= Min2(Len(r0), Len(r1)) THEN MergedCell(StripChars(r0[j]), StripChars(r1[j]))
        ELSE StripChars(CellAt(r0, j) \o CellAt(r1, j))]
\* (_non_numeric_ratio(r0) + _non_numeric_ratio(r1)) / 2 >= 0.6, which the
\* doubles decide as the fractions do for rows of up to 40 cells
Headerish(a, b) == 5 * (a.num * b.den + b.num * a.den) >= 6 * a.den * b.den
\* the first two rows are never merged
never_merge(r0, r1) == FALSE
\* headerish or periodish
ShouldMerge(r0, r1) ==
    \/ Headerish(_non_numeric_ratio(r0), _non_numeric_ratio(r1))
    \/ _PERIOD_HINT(Join(r0, <<" ">>))
    \/ _PERIOD_HINT(Join(r1, <<" ">>))
\* _merge_two_line_header(rows): (header, body)
_merge_two_line_header(rows) ==
    IF rows = <<>> THEN [header |-> <<>>, body |-> <<>>]
    ELSE IF Len(rows) >= 2 /\ ShouldMerge(rows[1], rows[2])
    THEN [header |-> MergedHeader(rows[1], rows[2]), body |-> SubSeq(rows, 3, Len(rows))]
    ELSE [header |-> rows[1], body |-> Tail(rows)]

\* _dedup_adjacent(rows)
Differing(rows) ==
    SelectSeq([k \in 1..Len(rows) |-> k], LAMBDA k : k = 1 \/ rows[k] # rows[k - 1])
RowsAt(rows, keep) == [i \in 1..Len(keep) |-> rows[keep[i]]]
_dedup_adjacent(rows) == RowsAt(rows, Differing(rows))

\* _unwrap_wrapped_rows(rows): a row with text in its first cell only joins
\* the first cell of the row before it; when the row before it is empty,
\* out[-1][0] raises and no rows are returned
IndexError == "IndexError"
OnlyFirstCell(r) ==
    /\ StripChars(CellAt(r, 1)) # <<>>
    /\ \A j \in 2..Len(r) : StripChars(r[j]) = <<>>
Appended(prior, first) == [prior EXCEPT ![1] = StripChars(@ \o <<" ">> \o first)]
RECURSIVE UnwrapFrom(_, _, _)
UnwrapFrom(rows, k, out) ==
    IF k > Len(rows) THEN out
    ELSE IF out # <<>> /\ OnlyFirstCell(rows[k])
    THEN IF out[Len(out)] = <<>> THEN IndexError
         ELSE UnwrapFrom(rows, k + 1,
                         [out EXCEPT ![Len(out)] = Appended(@, StripChars(rows[k][1]))])
    ELSE UnwrapFrom(rows, k + 1, Append(out, rows[k]))
_unwrap_wrapped_rows(rows) == UnwrapFrom(rows, 1, <<>>)

\* num / len(cells) >= 0.55, which the doubles decide as the fractions do
min_ratio == [num |-> 11, den |-> 20]
NumericColumn(rows, j) ==
    min_ratio.den * Cardinality({k \in 1..Len(rows) : _is_numeric_cell(CellAt(rows[k], j))})
        >= min_ratio.num * Len(rows)
\* _numeric_column_indices(rows): the 0-based indices, ascending
_numeric_column_indices(rows) ==
    IF rows = <<>> THEN <<>>
    ELSE SelectSeq([j \in 1..MaxWidth(rows) |-> j - 1], LAMBDA j : NumericColumn(rows, j + 1))

\* _TABLE_GATE: the statement alternatives share their endings
GateEndings ==
    { << {<<"o","p","e","r","a","t","i","o","n","s">>, <<"i","n","c","o","m","e">>, <<"l","o","s","s">>} >>,
      << {<<"c","a","s","h">>}, {<<"f","l","o","w">>} >>,
      << {<<"c","o","m","p","r","e","h","e","n","s","i","v","e">>}, {<<"i","n","c","o","m","e">>} >>,
      << {<<"s","t","o","c","k","h","o","l","d","e","r","s","RSQUO">>, <<"s","t","o","c","k","h","o","l","d","e","r","s","'">>},
         {<<"e","q","u","i","t","y">>} >> }
GateLeads ==
    { << {<<"c","o","n","s","o","l","i","d","a","t","e","d">>}, {<<"s","t","a","t","e","m","e","n","t">>, <<"s","t","a","t","e","m","e","n","t","s">>} >>,
      << {<<"s","t","a","t","e","m","e","n","t">>, <<"s","t","a","t","e","m","e","n","t","s">>} >> }
GateGap == 60
\* lead.{0,60}(ending) somewhere in the text
GateStatement(s, lead) ==
    \E i \in 1..Len(s) : \E e \in AltsEnds(s, i, lead) : \E d \in 0..GateGap :
        \E g \in GateEndings : e + d <= Len(s) /\ AltsEnds(s, e + d, g) # {}
\* _TABLE_GATE.search(txt) is not None
_TABLE_GATE_text(s) ==
    \/ \E lead \in GateLeads : GateStatement(s, lead)
    \/ SearchAlts(s, << {<<"c","o","n","s","o","l","i","d","a","t","e","d">>}, {<<"b","a","l","a","n","c","e">>}, {<<"s","h","e","e","t">>} >>)
    \/ SearchAlts(s, << {<<"b","a","l","a","n","c","e">>}, {<<"s","h","e","e","t">>} >>)

\* FIN_TITLE_PATTERNS: label, alternatives, and whether \b stands at both ends
Holders ==
    {<<"s","t","o","c","k","h","o","l","d","e","r","s","RSQUO">>, <<"s","t","o","c","k","h","o","l","d","e","r","s","'">>,
     <<"s","h","a","r","e","h","o","l","d","e","r","s","RSQUO">>, <<"s","h","a","r","e","h","o","l","d","e","r","s","'">>}
FIN_TITLE_PATTERNS ==
    << [label |-> <<"C","o","n","s","o","l","i","d","a","t","e","d"," ","B","a","l","a","n","c","e"," ","S","h","e","e","t","s">>, b |-> FALSE,
        pats |-> { << {<<"c","o","n","s","o","l","i","d","a","t","e","d">>}, {<<"b","a","l","a","n","c","e">>}, {<<"s","h","e","e","t">>} >>,
                   << {<<"c","o","n","s","o","l","i","d","a","t","e","d">>}, {<<"s","t","a","t","e","m","e","n","t">>, <<"s","t","a","t","e","m","e","n","t","s">>}, {<<"o","f">>},
                      {<<"f","i","n","a","n","c","i","a","l">>}, {<<"p","o","s","i","t","i","o","n">>} >> }],
       [label |-> <<"C","o","n","s","o","l","i","d","a","t","e","d"," ","S","t","a","t","e","m","e","n","t","s"," ","o","f"," ","O","p","e","r","a","t","i","o","n","s">>, b |-> FALSE,
        pats |-> { << {<<"c","o","n","s","o","l","i","d","a","t","e","d">>}, {<<"s","t","a","t","e","m","e","n","t">>, <<"s","t","a","t","e","m","e","n","t","s">>}, {<<"o","f">>},
                      {<<"o","p","e","r","a","t","i","o","n","s">>, <<"i","n","c","o","m","e">>, <<"l","o","s","s">>} >> }],
       [label |-> <<"C","o","n","s","o","l","i","d","a","t","e","d"," ","S","t","a","t","e","m","e","n","t","s"," ","o","f"," ","C","a","s","h"," ","F","l","o","w","s">>, b |-> FALSE,
        pats |-> { << {<<"c","o","n","s","o","l","i","d","a","t","e","d">>}, {<<"s","t","a","t","e","m","e","n","t">>, <<"s","t","a","t","e","m","e","n","t","s">>}, {<<"o","f">>},
                      {<<"c","a","s","h">>}, {<<"f","l","o","w">>} >> }],
       [label |-> <<"C","o","n","s","o","l","i","d","a","t","e","d"," ","S","t","a","t","e","m","e","n","t","s"," ","o","f"," ","S","t","o","c","k","h","o","l","d","e","r","s","RSQUO"," ","E","q","u","i","t","y">>, b |-> FALSE,
        pats |-> { << {<<"c","o","n","s","o","l","i","d","a","t","e","d">>}, {<<"s","t","a","t","e","m","e","n","t">>, <<"s","t","a","t","e","m","e","n","t","s">>}, {<<"o","f">>},
                      Holders, {<<"e","q","u","i","t","y">>} >>,
                   << {<<"c","o","n","s","o","l","i","d","a","t","e","d">>}, {<<"s","t","a","t","e","m","e","n","t">>, <<"s","t","a","t","e","m","e","n","t","s">>}, {<<"o","f">>},
                      {<<"c","h","a","n","g","e","s">>}, {<<"i","n">>}, Holders, {<<"e","q","u","i","t","y">>} >> }],
       [label |-> <<"C","o","n","s","o","l","i","d","a","t","e","d"," ","S","t","a","t","e","m","e","n","t","s"," ","o","f"," ","C","o","m","p","r","e","h","e","n","s","i","v","e"," ","I","n","c","o","m","e">>, b |-> FALSE,
        pats |-> { << {<<"c","o","n","s","o","l","i","d","a","t","e","d">>}, {<<"s","t","a","t","e","m","e","n","t">>, <<"s","t","a","t","e","m","e","n","t","s">>}, {<<"o","f">>},
                      {<<"c","o","m","p","r","e","h","e","n","s","i","v","e">>}, {<<"i","n","c","o","m","e">>} >> }],
       [label |-> <<"B","a","l","a","n","c","e"," ","S","h","e","e","t">>, b |-> TRUE,
        pats |-> { << {<<"b","a","l","a","n","c","e">>}, {<<"s","h","e","e","t">>, <<"s","h","e","e","t","s">>} >> }],
       [label |-> <<"S","t","a","t","e","m","e","n","t"," ","o","f"," ","O","p","e","r","a","t","i","o","n","s">>, b |-> TRUE,
        pats |-> { << {<<"s","t","a","t","e","m","e","n","t">>, <<"s","t","a","t","e","m","e","n","t","s">>}, {<<"o","f">>},
                      {<<"o","p","e","r","a","t","i","o","n","s">>, <<"i","n","c","o","m","e">>, <<"l","o","s","s">>} >> }],
       [label |-> <<"S","t","a","t","e","m","e","n","t"," ","o","f"," ","C","a","s","h"," ","F","l","o","w","s">>, b |-> TRUE,
        pats |-> { << {<<"s","t","a","t","e","m","e","n","t">>, <<"s","t","a","t","e","m","e","n","t","s">>}, {<<"o","f">>}, {<<"c","a","s","h">>},
                      {<<"f","l","o","w">>, <<"f","l","o","w","s">>} >> }],
       [label |-> <<"S","t","o","c","k","h","o","l","d","e","r","s","'"," ","E","q","u","i","t","y">>, b |-> FALSE,
        pats |-> { << Holders, {<<"e","q","u","i","t","y">>} >> }] >>
\* \w, for the characters of the texts
WordChars ==
    {UpperLetters[i] : i \in 1..26} \cup {LowerLetters[i] : i \in 1..26}
        \cup UnicodeDigits
        \cup {"_", "KELVIN", "LONGS", "DOTLESSI", "DOTTEDI", "EACUTE", "CAPEACUTE", "SUP2"}
\* \b stands before position i
Boundary(s, i) ==
    (i > 1 /\ s[i - 1] \in WordChars) # (i <= Len(s) /\ s[i] \in WordChars)
\* pat.search(head) is not None
TitleMatches(head, p) ==
    \E alts \in p.pats : \E i \in 1..Len(head) : \E e \in AltsEnds(head, i, alts) :
        p.b => (Boundary(head, i) /\ Boundary(head, e))
\* "\n".join(text.splitlines()[:60])
HeadOf(text) ==
    Join(SubSeq(SplitLines(text), 1, Min2(TitleHeadLines, Len(SplitLines(text)))), <<"\n">>)
ShoutyLength == 12
\* the fallback title: a line in capitals that names a balance or a statement
Shouty(ln) ==
    /\ Len(ln) >= ShoutyLength
    /\ Upper(ln) = ln
    /\ \E w \in {<<"B","A","L","A","N","C","E">>, <<"S","T","A","T","E","M","E","N","T">>, <<"S","T","A","T","E","M","E","N","T","S">>} : Contains(ln, w)
ShoutyTitle(lines) ==
    LET I == {k \in 1..Len(lines) : Shouty(StripChars(lines[k]))} IN
    IF I = {} THEN None ELSE StripChars(lines[CHOOSE k \in I : \A j \in I : k <= j])
\* _infer_title(text): None or the title
TitleOfHead(head) ==
    LET I == {k \in 1..Len(FIN_TITLE_PATTERNS) : TitleMatches(head, FIN_TITLE_PATTERNS[k])} IN
    IF I # {} THEN FIN_TITLE_PATTERNS[CHOOSE k \in I : \A j \in I : k <= j].label
    ELSE ShoutyTitle(SplitLines(head))
_infer_title(text) == IF text = <<>> THEN None ELSE TitleOfHead(HeadOf(text))
DetectedTitle == <<"F","i","n","a","n","c","i","a","l"," ","t","a","b","l","e"," ","(","d","e","t","e","c","t","e","d",")">>

\* _segment_table_blocks(text, min_rows): flush() appends the cleaned buffer
\* when it and its grid have min_rows rows
Flushed(blocks, buf, min_rows) ==
    IF Len(buf) >= min_rows /\ Len(_clean_grid(buf)) >= min_rows
    THEN Append(blocks, _clean_grid(buf)) ELSE blocks
RECURSIVE SegmentFrom(_, _, _, _, _, _)
SegmentFrom(lines, k, blocks, buf, gap, min_rows) ==
    IF k > Len(lines) THEN (IF buf # <<>> THEN Flushed(blocks, buf, min_rows) ELSE blocks)
    ELSE IF StripChars(lines[k]) # <<>> /\ _looks_table_line(lines[k])
    THEN SegmentFrom(lines, k + 1, blocks, Append(buf, _split_cols(lines[k])), 0, min_rows)
    ELSE IF gap + 1 > 1 /\ buf # <<>>
    THEN SegmentFrom(lines, k + 1, Flushed(blocks, buf, min_rows), <<>>, gap + 1, min_rows)
    ELSE SegmentFrom(lines, k + 1, blocks, buf, gap + 1, min_rows)
\* [ln.rstrip() for ln in text.splitlines()]
RStripLines(lines) == [k \in 1..Len(lines) |-> RStripSet(lines[k], WhiteSpace)]
_segment_table_blocks(text, min_rows) ==
    SegmentFrom(RStripLines(SplitLines(text)), 1, <<>>, <<>>, 0, min_rows)

MinRows == 3
max_rows == 120
\* the body of a grid after lines 281 and 282
BodyOf(body) ==
    _unwrap_wrapped_rows(
        SelectSeq(_dedup_adjacent(body), LAMBDA r : \E j \in 1..Len(r) : StripChars(r[j]) # <<>>))
\* too weak a numeric signal under a header without a period hint
WeakSignal(header, body, num_cols) ==
    /\ header # <<>> /\ ~_PERIOD_HINT(Join(header, <<" ">>))
    /\ Len(num_cols) < 3 /\ Len(body) < 6
\* the blocks one grid contributes: none or one
BlockOfParts(pg, title, header, body, num_cols) ==
    IF Len(num_cols) < 2 \/ WeakSignal(header, body, num_cols) THEN <<>>
    ELSE << [title |-> title, header |-> header,
             rows |-> SubSeq(body, 1, Min2(max_rows, Len(body))), pages |-> <<pg>>] >>
BlockOfBody(pg, title, header, body) ==
    BlockOfParts(pg, title, header, body, _numeric_column_indices(body))
BlockOfMerged(pg, title, m) == BlockOfBody(pg, title, m.header, BodyOf(m.body))
BlockOfGrid(pg, title, grid) ==
    IF grid = <<>> \/ Len(grid) < 2 \/ Len(grid[1]) < 2 THEN <<>>
    ELSE BlockOfMerged(pg, title, _merge_two_line_header(grid))
RECURSIVE BlocksOfGrids(_, _, _)
BlocksOfGrids(pg, title, grids) ==
    IF grids = <<>> THEN <<>>
    ELSE BlockOfGrid(pg, title, Head(grids)) \o BlocksOfGrids(pg, title, Tail(grids))
TitleOr(title) == IF title = None THEN DetectedTitle ELSE title
\* the blocks of one page, its text normalised
BlocksOfPage(pg, txt) ==
    IF txt = <<>> \/ ~_TABLE_GATE_text(txt) THEN <<>>
    ELSE BlocksOfGrids(pg, TitleOr(_infer_title(txt)), _segment_table_blocks(txt, MinRows))
\* extract_tables_from_pages(pages) for pages whose text is given character
\* by character
RECURSIVE extract_tables_from_pages_text(_)
extract_tables_from_pages_text(ps) ==
    IF ps = <<>> THEN <<>>
    ELSE BlocksOfPage(Head(ps).page, _normalize_text(Head(ps).text))
         \o extract_tables_from_pages_text(Tail(ps))

\* The table extractor on its own: one page of two header lines and four data
\* lines. The first header line decides the gate and the title, the header
\* lines hold a year, a month inside a word, a period word spelt with the
\* dotted capital I, or no period hint at all, or are no table line; the data
\* lines put a no-break space, an em space, tabs and a soft hyphen between and
\* inside their cells.
TableHeader1 ==
    { <<"B","a","l","a","n","c","e"," ","S","h","e","e","t"," ","2","0","2","3"," ","2","0","2","2">>, <<"B","a","l","a","n","c","e"," ","S","h","e","e","t"," ","1"," ","2">>, <<"C","o","n","s","o","l","i","d","a","t","e","d"," ","B","a","l","a","n","c","e"," ","S","h","e","e","t","s">>,
      <<"S","T","A","T","E","M","E","N","T"," ","R","E","G","A","R","D","I","N","G"," ","L","O","S","S"," ","5"," ","6">>, <<"R","e","s","u","l","t","s"," ","2","0","2","3"," ","2","0","2","2">> }
TableHeader2 ==
    { <<"A","s","s","e","t","s"," ","2","0","2","3"," ","2","0","2","2">>, <<"A","s","s","e","t","s"," ","3"," ","4">>, <<"S","u","m","m","a","r","y"," ","3"," ","4">>, <<"(","i","n"," ","m","i","l","l","i","o","n","s",")">>,
      <<"s","DOTTEDI","x"," ","m","o","n","t","h","s"," ","3"," ","4">> }
TableData ==
    { <<"C","a","s","h"," ","1","0","0"," ","9","0">>, <<"T","o","t","a","l","NBSP","1","5","0","EMSP"," ","1","3","0">>, <<"D","e","SHY","b","t","\t","(","$","1",",","2","3","4",")","\t","-","5",".","5","%">> }
InitTables ==
    \E h1 \in TableHeader1, h2 \in TableHeader2, d \in [1..4 -> TableData] :
        /\ NoParse
        /\ pc = "call"
        /\ call = [fn |-> "extract_tables_from_pages",
                   pages |-> << [page |-> 3,
                                 text |-> Join(<<h1, h2>> \o d, <<"\n">>)] >>]
        /\ ret = NotYet
ExtractTables ==
    /\ pc = "call" /\ call.fn = "extract_tables_from_pages"
    /\ ret' = extract_tables_from_pages_text(call.pages)
    /\ pc' = "returned"
    /\ UNCHANGED <<call, parseVars>>
NextTables == ExtractTables
SpecTables == InitTables /\ [][NextTables]_vars

\* ----------------------------------------------------------------- app.py
\* The request handlers of app.py over the stores DOCS and RESULTS and the
\* files of DATA_DIR. Every request is taken up by the event loop. upload and
\* generate_report are async functions without an await between their reads
\* and writes of the stores, so the loop runs them one at a time and takes up
\* no request meanwhile; export_report_endpoint is a plain function, which
\* the framework hands to a worker thread, so its statements interleave with
\* every other handler's, the file write and the DOCS entry of upload
\* included. A parse is one step that returns a result or raises, whatever
\* the file (a path that does not end in ".pdf" is never opened,
\* parse_pdf.py:158).
DocIds == 1..MaxDocs
Kinds == {"upload", "generate_report", "export_report"}
AsyncKinds == {"upload", "generate_report"}
\* the dict a parse returns and str(e) of what it raises
Parsed == "parsed"
ErrorMsg == <<"p","a","r","s","e"," ","f","a","i","l","e","d">>
\* str(uuid4()): the k-th document uploaded gets the id k
NewDocId == Cardinality(DOMAIN DOCS) + 1
\* the requests a run serves; none names a document yet (doc 0)
RequestsOf(n) == [1..n -> [kind : Kinds, doc : {0}, pc : {"new"}]]
nonAppVars == <<path, file, faults, sched, clock, run, prev, pc, pages, anchors,
                sections, analysis, ran, call, ret, progress_callback>>
InitApp ==
    /\ path = <<>> /\ file = <<>> /\ faults = {} /\ sched = "seq"
    /\ clock = 0 /\ run = 1 /\ prev = NotYet
    /\ pc = "app"
    /\ pages = <<>> /\ anchors = <<>> /\ sections = <<>>
    /\ analysis = NotYet /\ ran = {}
    /\ call = NoCall /\ ret = NotYet /\ progress_callback = NoCallback
    /\ DOCS = EmptyDict /\ RESULTS = EmptyDict /\ DATA_DIR = {}
    /\ requests \in RequestsOf(MaxRequests)
\* the event loop is free for request r: no other async handler is under way
LoopFree(r) ==
    \A q \in DOMAIN requests :
        (q # r /\ requests[q].kind \in AsyncKinds) => requests[q].pc \in {"new", "done"}
\* the event loop takes up request r
Begins(r, kind) ==
    /\ requests[r].kind = kind /\ requests[r].pc = "new"
    /\ LoopFree(r)
At(r, l) == requests[r].pc = l
Goto(r, l) == requests' = [requests EXCEPT ![r].pc = l]
\* upload, lines 115-118: a new id, the file saved under it. Writing the
\* file lets the worker threads run, so their steps fall between this one
\* and the next
Upload(r) ==
    /\ Begins(r, "upload")
    /\ NewDocId \in DocIds
    /\ DATA_DIR' = DATA_DIR \cup {NewDocId}
    /\ requests' = [requests EXCEPT ![r].doc = NewDocId, ![r].pc = "entry"]
    /\ UNCHANGED <<DOCS, RESULTS, nonAppVars>>
\* upload, lines 120-126: the DOCS entry made
MakeEntry(r) ==
    /\ At(r, "entry") /\ Goto(r, "parse")
    /\ DOCS' = Put(DOCS, requests[r].doc,
                   [path |-> requests[r].doc, status |-> "parsing", error_msg |-> None])
    /\ UNCHANGED <<RESULTS, DATA_DIR, nonAppVars>>
\* generate_report line 152 and export_report_endpoint line 160: the request
\* arrives with its document_id. An id is a uuid4 made by upload (line 115),
\* so a request names a document the server has, or (0) an id no document
\* has and none will get
Arrives(r) ==
    /\ Begins(r, "generate_report") \/ Begins(r, "export_report")
    /\ \E d \in DOMAIN DOCS \cup {0} :
          requests' = [requests EXCEPT ![r].doc = d, ![r].pc = "get"]
    /\ UNCHANGED <<DOCS, RESULTS, DATA_DIR, nonAppVars>>
\* generate_report line 153 and export_report_endpoint line 161:
\* RESULTS.get(document_id), and _lazy_load when there is none
GetResult(r) ==
    /\ At(r, "get")
    /\ Goto(r, IF requests[r].doc \in DOMAIN RESULTS THEN "done" ELSE "lazy")
    /\ UNCHANGED <<DOCS, RESULTS, DATA_DIR, nonAppVars>>
\* _lazy_load lines 76-81 and 90: no document, or no file at its path, is
\* no parse
LazyLoad(r) ==
    /\ At(r, "lazy")
    /\ Goto(r, IF requests[r].doc \in DOMAIN DOCS /\ DOCS[requests[r].doc].path \in DATA_DIR
               THEN "parse" ELSE "done")
    /\ UNCHANGED <<DOCS, RESULTS, DATA_DIR, nonAppVars>>
\* os.path.exists(path), line 81: the program never removes a saved file,
\* whoever else has access to the data directory may
FileRemoved ==
    /\ \E d \in DATA_DIR : DATA_DIR' = DATA_DIR \ {d}
    /\ UNCHANGED <<DOCS, RESULTS, requests, nonAppVars>>
\* parse_pdf_with_citations returns (lines 83, 131)
ParseReturns(r) ==
    /\ At(r, "parse") /\ Goto(r, "store")
    /\ UNCHANGED <<DOCS, RESULTS, DATA_DIR, nonAppVars>>
\* parse_pdf_with_citations raises
ParseRaises(r) ==
    /\ At(r, "parse") /\ Goto(r, "except")
    /\ UNCHANGED <<DOCS, RESULTS, DATA_DIR, nonAppVars>>
\* RESULTS[doc_id] = parsed (lines 84, 132)
StoreResult(r) ==
    /\ At(r, "store") /\ Goto(r, "ready")
    /\ RESULTS' = Put(RESULTS, requests[r].doc, Parsed)
    /\ UNCHANGED <<DOCS, DATA_DIR, nonAppVars>>
\* DOCS[doc_id]["status"] = "ready" (lines 85, 133)
SetReady(r) ==
    /\ At(r, "ready") /\ Goto(r, "done")
    /\ DOCS' = [DOCS EXCEPT ![requests[r].doc].status = "ready"]
    /\ UNCHANGED <<RESULTS, DATA_DIR, nonAppVars>>
\* DOCS[doc_id]["status"] = "error" (lines 89, 136)
SetError(r) ==
    /\ At(r, "except") /\ Goto(r, "error_msg")
    /\ DOCS' = [DOCS EXCEPT ![requests[r].doc].status = "error"]
    /\ UNCHANGED <<RESULTS, DATA_DIR, nonAppVars>>
\* DOCS[doc_id]["error_msg"] = str(e) (lines 89, 137)
SetErrorMsg(r) ==
    /\ At(r, "error_msg") /\ Goto(r, "done")
    /\ DOCS' = [DOCS EXCEPT ![requests[r].doc].error_msg = ErrorMsg]
    /\ UNCHANGED <<RESULTS, DATA_DIR, nonAppVars>>
NextApp ==
    \/ \E r \in DOMAIN requests : Upload(r)
    \/ \E r \in DOMAIN requests : MakeEntry(r)
    \/ \E r \in DOMAIN requests : Arrives(r)
    \/ \E r \in DOMAIN requests : GetResult(r)
    \/ \E r \in DOMAIN requests : LazyLoad(r)
    \/ FileRemoved
    \/ \E r \in DOMAIN requests : ParseReturns(r)
    \/ \E r \in DOMAIN requests : ParseRaises(r)
    \/ \E r \in DOMAIN requests : StoreResult(r)
    \/ \E r \in DOMAIN requests : SetReady(r)
    \/ \E r \in DOMAIN requests : SetError(r)
    \/ \E r \in DOMAIN requests : SetErrorMsg(r)
SpecApp == InitApp /\ [][NextApp]_vars

\* One parse with the extractor stages run in any order
InitPar ==
    \E f \in Files(PipelineTexts, 1), F \in FaultSets :
        F \subseteq Extractors /\ Start(<<"a",".","p","d","f">>, f, F, "any")
NextPar ==
    \/ ExtractPages \/ FindAnchors \/ SliceSections \/ InjectSynthetic \/ BuildBase
    \/ Kpi \/ Risks \/ FinancialsStage \/ NonGaap \/ MarketRisk \/ Auditor \/ Legal
    \/ CapitalStructure
    \/ Return
SpecPar == InitPar /\ [][NextPar]_vars

\* ================================================================== claims
Overlap(a, b) == a.start_page <= b.end_page /\ b.start_page <= a.end_page
NonOverlapping(secs) ==
    \A i, j \in 1..Len(secs) : i < j => ~Overlap(secs[i], secs[j])
SortedByStart(secs) ==
    \A i, j \in 1..Len(secs) : i < j => secs[i].start_page <= secs[j].start_page
IncreasingByPageOffset(al) ==
    \A i \in 1..(Len(al) - 1) :
        \/ al[i].page < al[i + 1].page
        \/ (al[i].page = al[i + 1].page /\ al[i].pos < al[i + 1].pos)
IncreasingByPage(al) ==
    \A i \in 1..(Len(al) - 1) : al[i].page < al[i + 1].page
Sliced == pc = "rescue"
Rescued == pc = "base"

C2_FinalSectionsDisjoint ==
    pc = "done" => NonOverlapping(analysis.sections)

\* the page on which the rescuer locates an item code, 0 if on none
Located(code) == _find_item_page(pages, code)
RescueCodes == { <<"7">>, <<"7","a">>, <<"8">> }
RescueTitle(code) ==
    CASE code = <<"7">> -> Title7
      [] code = <<"7","a">> -> Title7A
      [] code = <<"8">> -> Title8
RescuePrefix(code) ==
    CASE code = <<"7">> -> Item7Prefix
      [] code = <<"7","a">> -> Item7aPrefix
      [] code = <<"8">> -> Item8DotPrefix
SetMin(S) == CHOOSE x \in S : \A y \in S : x <= y

\* C3: a rescued section for Item 7, 7A or 8 starts at the page where the
\* item is located and ends on the page before the next located item, or on
\* the last page of the document when no later item is located.
C3_RescuedSpan ==
    Rescued =>
        \A k \in 1..Len(sections), c \in RescueCodes :
            sections[k].title = RescueTitle(c) =>
                LET later == { Located(d) : d \in RescueCodes \ {c} } \cap
                             { n \in Nat : n > Located(c) }
                IN /\ sections[k].start_page = Located(c)
                   /\ sections[k].end_page =
                        IF later = {} THEN LastPage(pages) ELSE SetMin(later) - 1

\* number of elements of a sequence equal to x
Count(seq, x) == Cardinality({ i \in 1..Len(seq) : seq[i] = x })
Elems(seq) == { seq[i] : i \in 1..Len(seq) }
TitleOfItem(secs, c) ==
    \E k \in 1..Len(secs) : StartsWith(Lower(secs[k].title), RescuePrefix(c))

\* the relation C4 asks between the rescuer's input and output
Frame(inp, out) ==
    /\ \A x \in Elems(inp) : Count(out, x) >= Count(inp, x)
    /\ \A x \in Elems(out) :
          Count(out, x) > Count(inp, x) =>
              /\ Count(out, x) = Count(inp, x) + 1
              /\ \E c \in RescueCodes : x.title = RescueTitle(c) /\ ~TitleOfItem(inp, c)
    /\ \A c \in RescueCodes :
          Cardinality({ k \in 1..Len(out) : out[k].title = RescueTitle(c) })
              <= IF TitleOfItem(inp, c) THEN Count([i \in 1..Len(inp) |-> inp[i].title], RescueTitle(c))
                 ELSE 1

\* C4: every section handed to the rescuer is in its output unchanged; a
\* section is added only for a code among 7, 7A, 8 that no input title
\* starts with, and at most one per such code.
C4_RescueOnlyAdds ==
    [][(pc = "rescue" /\ pc' = "base") => Frame(sections, sections')]_vars

C4_Witness ==
    /\ Rescued
    /\ Len(sections) = 3
    /\ \E k \in 1..3 : sections[k].title = Title8
    /\ \E k \in 1..3 : StartsWith(Lower(sections[k].title), Item7Prefix)
                       /\ sections[k].title # Title7
    /\ Located(<<"7">>) # 0

\* ------------------------------------------------- orchestrator (C5 .. C10)
IsPdfRun == path \in PdfPaths
Returned == pc = "done"
Derived == analysis.derived

\* whether the result holds an output for stage s, and that output
HasOutput(s) ==
    CASE s = "kpi" -> {"kpis", "segments"} \subseteq DOMAIN Derived
      [] s = "capital_structure" -> "capital_structure" \in DOMAIN analysis
      [] OTHER -> s \in DOMAIN Derived
Output(s) ==
    CASE s = "kpi" -> [kpis |-> Derived["kpis"], segments |-> Derived["segments"]]
      [] s = "capital_structure" -> analysis["capital_structure"]
      [] OTHER -> Derived[s]

\* what a stage stores when its call does not raise
Computed(s) ==
    CASE s = "kpi" -> extract_kpis([sections |-> SectionsMap(sections), pages |-> pages])
      [] s = "risks" -> extract_top_risks_from_item_1a(sections)
      [] s = "financials" -> Financials(sections, pages)
      [] s = "non_gaap" -> extract_non_gaap(sections)
      [] s = "market_risk" -> extract_market_risk(sections)
      [] s = "auditor" -> extract_controls_auditor(sections)
      [] s = "legal" -> extract_legal_items(sections)
      [] s = "capital_structure" -> extract_capital_structure(pages)

\* the default the claim names: an empty list or an empty mapping
EmptyDefault(s) ==
    IF s = "kpi" THEN [kpis |-> EmptyList, segments |-> EmptyList]
    ELSE IF s \in {"market_risk", "auditor", "legal", "capital_structure"} THEN EmptyDict
    ELSE EmptyList
\* the default of the except branches: as above, but for the legal stage the
\* mapping {"items": []}
StageDefault(s) ==
    IF s = "legal" THEN [items |-> EmptyList] ELSE EmptyDefault(s)

\* stage s has run and left in the result what the claim asks, with d the
\* default of a stage that raised
Isolated(s, d) ==
    /\ HasOutput(s)
    /\ IF s \in faults
       THEN /\ Output(s) = d
            /\ ErrorKey(s) \in DOMAIN Derived
            /\ Derived[ErrorKey(s)] = ErrorString(s)
       ELSE /\ ErrorKey(s) \notin DOMAIN Derived
            /\ Output(s) = Computed(s)
IsolatedRun(ds) ==
    /\ (pc = "extract" /\ IsPdfRun) => \A s \in ran : Isolated(s, ds[s])
    /\ (Returned /\ IsPdfRun) => (ran = Extractors /\ \A s \in Extractors : Isolated(s, ds[s]))
    /\ pc = "raised" => ran = {}

\* C5 as stated: an extractor stage that raises does not abort the pipeline;
\* its output in the result is an empty list or an empty mapping, an error
\* string is stored in derived under its _<stage>_error key, and every later
\* stage still runs; a stage that does not raise leaves no error key.
C5_EmptyDefaultOnFailure ==
    IsolatedRun([s \in Extractors |-> EmptyDefault(s)])

\* C5 amended: the same, with the default of each stage as its except branch
\* sets it: an empty list or mapping, and for the legal stage the mapping
\* {"items": []}.
C5_StageDefaultOnFailure ==
    IsolatedRun([s \in Extractors |-> StageDefault(s)])

C5_Witness ==
    /\ Returned /\ IsPdfRun
    /\ "legal" \in faults
    /\ Derived["legal"] = [items |-> EmptyList]
    /\ "_legal_error" \in DOMAIN Derived
    /\ analysis["capital_structure"] = extract_capital_structure(pages)

\* C6 as stated: whichever of anchor detection, slicing, rescue or an
\* extractor fails, no exception leaves parse_pdf_with_citations.
C6_NeverPropagates ==
    ("pages" \notin faults) => pc # "raised"

\* C6 amended: whichever extractor stages fail, no exception leaves
\* parse_pdf_with_citations and a result is returned; a failure of anchor
\* detection, slicing or rescue is not caught and leaves it: no result is
\* built after such a failure.
C6_OnlyExtractorsIsolated ==
    /\ (faults \cap EarlyStages = {}) => pc # "raised"
    /\ (pc = "raised") => (analysis = NotYet /\ ran = {})
    /\ (IsPdfRun /\ pc \in {"base", "extract", "done"}) => faults \cap EarlyStages = {}
    /\ (IsPdfRun /\ Returned) => (ran = Extractors /\ analysis # NotYet)

C6_Witness ==
    /\ Returned /\ IsPdfRun
    /\ faults \cap Extractors # {}
    /\ Len(analysis.sections) > 0

DerivedFields ==
    {"kpis", "segments", "risks", "financials", "non_gaap", "market_risk", "auditor", "legal"}

\* C7: for a path that does not end in ".pdf" in any letter case the parse
\* runs no pipeline stage, never raises, and returns a result with
\* anchors_found 0, one page, exactly one section "Document" on pages 1 to 1,
\* every field of derived empty and an empty capital_structure.
C7_NonPdfDegenerate ==
    path \in NonPdfPaths =>
        /\ pc \in {"start", "done"}
        /\ pages = <<>> /\ anchors = <<>> /\ sections = <<>> /\ ran = {}
        /\ Returned =>
              /\ analysis.doc_meta.anchors_found = 0
              /\ analysis.doc_meta.pages = 1
              /\ Len(analysis.pages) = 1
              /\ Len(analysis.sections) = 1
              /\ analysis.sections[1].title = <<"D","o","c","u","m","e","n","t">>
              /\ analysis.sections[1].start_page = 1
              /\ analysis.sections[1].end_page = 1
              /\ DOMAIN Derived = DerivedFields
              /\ \A k \in DerivedFields : Derived[k] = <<>>
              /\ analysis.capital_structure = <<>>

C7_Witness ==
    /\ Returned
    /\ path = <<"a",".","p","d","f",".","t","x","t">>
    /\ faults # {}
    /\ analysis.doc_meta.doc_type = "unknown"

\* the first section whose lowered title starts with "item 8", 0 if none
Item8Index ==
    LET S == { k \in 1..Len(sections) :
                 StartsWith(Lower(sections[k].title), <<"i","t","e","m"," ","8">>) }
    IN IF S = {} THEN 0 ELSE SetMin(S)
AllTables == extract_tables_from_pages(pages)
\* the tables of the pages inside the Item 8 section's span
Item8Tables ==
    IF Item8Index = 0 THEN <<>>
    ELSE SelectSeq(AllTables, LAMBDA t :
             /\ sections[Item8Index].start_page <= t.pages[1]
             /\ t.pages[1] <= sections[Item8Index].end_page)
FinancialsRan == pc \in {"extract", "done"} /\ "financials" \in ran /\ "financials" \notin faults

\* C8: when the Item 8 section's pages yield at least one table,
\* derived.financials is exactly those tables; when they yield none, or there
\* is no Item 8 section, it is the first 4 (or fewer) tables of all pages.
C8_ScopedThenCappedFallback ==
    FinancialsRan =>
        LET fin == Derived["financials"] IN
        IF Item8Tables # <<>> THEN fin = Item8Tables
        ELSE /\ Len(fin) = Min2(Len(AllTables), 4)
             /\ \A i \in 1..Len(fin) : fin[i] = AllTables[i]

C8_Witness ==
    /\ Returned /\ FinancialsRan
    /\ Item8Index # 0 /\ Item8Tables = <<>>
    /\ Len(AllTables) = 5
    /\ Len(Derived["financials"]) = 4

\* the result of the extractor stages run in the order of the code
InCodeOrder ==
    LET a0 == BaseAnalysis(clock, pages, anchors, sections)
        a1 == StageKpi(a0, "kpi" \in faults).analysis
        a2 == StageRisks(a1, sections, "risks" \in faults).analysis
        a3 == StageFinancials(a2, sections, pages, "financials" \in faults).analysis
        a4 == StageNonGaap(a3, sections, "non_gaap" \in faults).analysis
        a5 == StageMarketRisk(a4, sections, "market_risk" \in faults).analysis
        a6 == StageAuditor(a5, sections, "auditor" \in faults).analysis
        a7 == StageLegal(a6, sections, "legal" \in faults).analysis
    IN StageCapitalStructure(a7, pages, "capital_structure" \in faults).analysis

\* the keys of derived that stage s writes, and what s has put in a result
KeysOf(s) ==
    IF s = "kpi" THEN {"kpis", "segments", "_kpi_error"}
    ELSE IF s = "capital_structure" THEN {"_capital_structure_error"}
    ELSE {s, ErrorKey(s)}
Contribution(a, s) ==
    [derived |-> [k \in KeysOf(s) \cap DOMAIN a.derived |-> a.derived[k]],
     top |-> IF s = "capital_structure" /\ "capital_structure" \in DOMAIN a
             THEN <<a["capital_structure"]>> ELSE <<>>]

\* C10: with the extractor stages run in any order, what each stage that has
\* run contributes to the result is what it contributes in the order of the
\* code, a stage that does not raise contributes its own value whichever
\* other stage raised, and the pages and sections of the result stay those
\* computed before the extractor phase.
C10_OrderIndependent ==
    pc \in {"extract", "done"} =>
        LET ref == InCodeOrder
            pgs == _extract_pages(file)
        IN /\ \A s \in ran : Contribution(analysis, s) = Contribution(ref, s)
           /\ \A s \in ran \ faults : HasOutput(s) /\ Output(s) = Computed(s)
           /\ analysis.pages = pgs
           /\ analysis.sections = sections
           /\ sections = _inject_synthetic_sections(
                             slice_sections(pgs, find_sec_anchors(pgs)), pgs)
           /\ Returned => analysis = ref

C10_Witness ==
    /\ pc = "extract"
    /\ ran = {"legal", "capital_structure"}
    /\ faults = {"legal"}
    /\ Contribution(analysis, "legal") = Contribution(InCodeOrder, "legal")
    /\ "kpis" \notin DOMAIN Derived

\* ------------------------------------------------ anchor detector (C11 .. C14)
Detected == pc = "slice"
\* a page the detector skips: front-matter table of contents, or index page
SkippedPage(p) ==
    \/ (p.page <= 50 /\ looks_like_toc(p.text))
    \/ Cardinality({ i \in 1..Len(p.text) : SEC_ITEM_RE(p.text[i]) # <<>> }) >= 5
\* the heading matches of the input, as <<index of the page, line>>
Headings ==
    UNION { { <<k, i>> : i \in { n \in 1..Len(pages[k].text) :
                                  SEC_ITEM_RE(pages[k].text[n]) # <<>> } } :
            k \in { n \in 1..Len(pages) : ~SkippedPage(pages[n]) } }
\* the lines of the texts that end in dot leaders and a page number
LeaderLines == {"Item 7. MD&A ..... 12"}
TocHeadings == { g \in Headings : pages[g[1]].text[g[2]] \in LeaderLines }
Genuine == Headings \ TocHeadings
CodeOf(g) == Upper(SEC_ITEM_RE(pages[g[1]].text[g[2]]).num)
\* the anchor recorded from a heading match
AnchorOf(g) ==
    [item |-> CodeOf(g),
     title |-> SEC_ITEM_RE(pages[g[1]].text[g[2]]).title,
     page |-> pages[g[1]].page,
     pos |-> MatchStart(pages[g[1]].text, g[2])]
PageOffsetLeq(a, b) == a.page < b.page \/ (a.page = b.page /\ a.pos <= b.pos)
AscendingPages == \A k \in 1..(Len(pages) - 1) : pages[k].page < pages[k + 1].page

\* C11: no two anchors of the list returned by find_sec_anchors have the same
\* upper-cased item code.
C11_DistinctItemCodes ==
    Detected =>
        \A i, j \in 1..Len(anchors) : i # j => Upper(anchors[i].item) # Upper(anchors[j].item)

C11_Witness ==
    /\ Detected
    /\ \E g, h \in Genuine :
          /\ SEC_ITEM_RE(pages[g[1]].text[g[2]]).num = <<"7","A">>
          /\ SEC_ITEM_RE(pages[h[1]].text[h[2]]).num = <<"7","a">>
    /\ Cardinality({ i \in 1..Len(anchors) : anchors[i].item = <<"7","A">> }) = 1

\* C12: the list returned by find_sec_anchors is in non-decreasing order of
\* (page, offset), whatever the order of the input pages.
C12_SortedByPageOffset ==
    Detected =>
        \A i, j \in 1..Len(anchors) : i < j => PageOffsetLeq(anchors[i], anchors[j])

C12_Witness ==
    /\ Detected
    /\ Len(pages) = 2 /\ pages[1].page > pages[2].page
    /\ Len(anchors) = 2
    /\ anchors[1].page = pages[2].page /\ anchors[2].page = pages[1].page

\* C13: every returned anchor is recorded from a heading match whose line is
\* not a table-of-contents line, and a heading match on a table-of-contents
\* line does not mark its code as seen: every code with a heading match on
\* another line of a scanned page still has its anchor.
C13_NoTocLineAnchors ==
    Detected =>
        /\ \A i \in 1..Len(anchors) : \E g \in Genuine : anchors[i] = AnchorOf(g)
        /\ \A i \in 1..Len(anchors) : \A g \in TocHeadings : anchors[i] # AnchorOf(g)
        /\ \A g \in Genuine : \E i \in 1..Len(anchors) : anchors[i].item = CodeOf(g)

C13_Witness ==
    /\ Detected
    /\ Len(pages) = 1
    /\ \E g \in TocHeadings, h \in Genuine : CodeOf(g) = CodeOf(h) /\ g[2] < h[2]
    /\ Len(anchors) = 1 /\ anchors[1].pos > 0

\* C14: with the input pages in ascending page order, the anchor kept for an
\* item code is the one of the earliest heading match of that code, in
\* (page, offset) order, among the matches on scanned pages whose line is not
\* a table-of-contents line; no other heading of the code leaves an anchor.
C14_FirstGenuineHitWins ==
    (Detected /\ AscendingPages) =>
        \A g \in Genuine :
            \E i \in 1..Len(anchors) :
                /\ anchors[i].item = CodeOf(g)
                /\ PageOffsetLeq(anchors[i], AnchorOf(g))
                /\ \E h \in Genuine : anchors[i] = AnchorOf(h)
                /\ \A j \in 1..Len(anchors) : anchors[j].item = CodeOf(g) => j = i

C14_Witness ==
    /\ Detected /\ AscendingPages
    /\ Len(pages) = 2
    /\ \E g, h \in Genuine : g[1] = 1 /\ h[1] = 2 /\ CodeOf(g) = CodeOf(h)
                             /\ CodeOf(g) = <<"7">>
    /\ \E i \in 1..Len(anchors) : anchors[i].item = <<"7">> /\ anchors[i].page = pages[1].page

\* the spans of the state's anchor list for the last page number lp
SpansFor(lp) == spans_from_anchors(anchors, lp)

\* C15: every section returned by slice_sections, and every span returned by
\* spans_from_anchors for any last page number, has start_page <= end_page,
\* whatever the order of the anchors and also when the last page precedes the
\* page of the final anchor.
C15_StartNotAfterEnd ==
    Sliced =>
        /\ \A k \in 1..Len(sections) : sections[k].start_page <= sections[k].end_page
        /\ \A lp \in 0..(MaxPages + 1) :
              \A k \in 1..Len(anchors) :
                  /\ SpansFor(lp)[k].start_page <= SpansFor(lp)[k].end_page
                  /\ SpansFor(lp)[k].start_page = anchors[k].page

C15_Witness ==
    /\ Sliced
    /\ Len(anchors) = 2
    /\ anchors[2].page < anchors[1].page
    /\ anchors[1].page > LastListedPage(pages)
    /\ SpansFor(LastListedPage(pages))[1].end_page = anchors[1].page
    /\ Len(sections) = 1

\* ---------------------------------------------------------- risk extractor
RiskReturned == pc = "returned" /\ call.fn = "extract_top_risks_from_item_1a"
\* the (page, sentence) pairs of the first Item 1A section of the call
Item1ASentences ==
    LET one_a == FirstSection(call.sections, <<"i","t","e","m"," ","1","a">>) IN
    IF one_a = <<>> THEN {}
    ELSE LET sp == _sentences_with_pages(one_a.content) IN {sp[k] : k \in DOMAIN sp}
KeptRisks == {[page |-> ret[k].page, sent |-> ret[k].text] : k \in DOMAIN ret}
CuesIn(sent) == {_RISK_CUES[k] : k \in {i \in DOMAIN _RISK_CUES : Contains(Lower(sent), _RISK_CUES[i])}}
\* 200 times: cues contained + min(length / 200, 1.0), minus 0.25 below 40
Score200(sent) ==
    200 * Cardinality(CuesIn(sent)) + (IF Len(sent) >= 200 THEN 200 ELSE Len(sent))
        - (IF Len(sent) < 40 THEN 50 ELSE 0)
KeptIffAboveThreshold ==
    LET above == {p \in Item1ASentences : Score200(p.sent) > 160} IN
    Cardinality(above) <= 10 => KeptRisks = above
\* no more sentences score above the threshold than the extractor returns
WithinLimit == Cardinality({p \in Item1ASentences : Score200(p.sent) > 160}) <= 10
OnlyRisk30(p) == Len(p.sent) = 30 /\ CuesIn(p.sent) = {<<"r","i","s","k">>}
AdverseRegulatory90(p) ==
    /\ Len(p.sent) = 90
    /\ Contains(Lower(p.sent), <<"m","a","t","e","r","i","a","l"," ","a","d","v","e","r","s","e">>)
    /\ Contains(Lower(p.sent), <<"r","e","g","u","l","a","t","o","r","y">>)

\* C16 as stated: a sentence is kept iff cues + min(length/200, 1) - (0.25
\* when shorter than 40) exceeds 0.8, a 30-character sentence of Item 1A whose
\* only cue is "risk" is excluded, and a 90-character sentence with "material
\* adverse" and "regulatory" is included.
C16_Short30RiskExcluded ==
    RiskReturned =>
        /\ KeptIffAboveThreshold
        /\ \A p \in Item1ASentences :
            /\ OnlyRisk30(p) => p \notin KeptRisks
            /\ AdverseRegulatory90(p) => p \in KeptRisks

\* C16 amended: when at most 10 sentences score above 0.8, a sentence is kept
\* iff cues + min(length/200, 1) - (0.25 when shorter than 40) exceeds 0.8; a
\* 30-character sentence of Item 1A whose only cue is "risk" scores 0.90 and
\* is then included, and so is a 90-character sentence with "material
\* adverse" and "regulatory".
C16_Short30RiskIncluded ==
    RiskReturned =>
        /\ KeptIffAboveThreshold
        /\ \A p \in Item1ASentences :
            /\ OnlyRisk30(p) => Score200(p.sent) = 180 /\ (WithinLimit => p \in KeptRisks)
            /\ AdverseRegulatory90(p) => (WithinLimit => p \in KeptRisks)
C16_Witness ==
    /\ RiskReturned
    /\ \E p \in Item1ASentences : OnlyRisk30(p) /\ p \in KeptRisks
    /\ \E p \in Item1ASentences : AdverseRegulatory90(p) /\ p \in KeptRisks

\* ----------------------------------------------------------- KPI extractor
KpiReturned == pc = "returned" /\ call.fn = "extract_kpis"
ScannedPages == PagesToScanSet(call.doc.sections)
LinesOfPage(pn) == SplitLines(TextByPage(call.doc.pages, pn))
\* the (page, line) places where a line matches a pattern of KPI k and holds
\* a number
MatchPlaces(k) ==
    {p \in UNION { {<<pn, i>> : i \in DOMAIN LinesOfPage(pn)} : pn \in ScannedPages } :
        /\ MatchesAny(LinesOfPage(p[1])[p[2]], KPI_NAMES[k].pats)
        /\ NUM_RE(LinesOfPage(p[1])[p[2]]) # None}
PlaceBefore(p, q) == p[1] < q[1] \/ (p[1] = q[1] /\ p[2] < q[2])
LastPlace(mp) == CHOOSE p \in mp : \A q \in mp : q = p \/ PlaceBefore(q, p)
NthPlace(mp, n) ==
    CHOOSE p \in mp : Cardinality({q \in mp : PlaceBefore(q, p)}) = n - 1
KpiRecords(k) == SelectSeq(ret.kpis, LAMBDA r : r.name = KPI_NAMES[k].name)
PageHolds(pn, text) == \E i \in DOMAIN call.doc.pages : call.doc.pages[i] = [page |-> pn, text |-> text]

\* C17: for each KPI the reported value is the number parsed from the last
\* matching line in scan order (ascending page number, then line order) and
\* pages lists the pages of the matches in that order; scanned page 3 with
\* "Net sales $1,000" and scanned page 5 with "Net sales $1,200" give revenue
\* 1200 with pages [3, 5].
C17_LastHitWins ==
    KpiReturned =>
        /\ \A k \in DOMAIN KPI_NAMES :
            LET mp == MatchPlaces(k)
            IN  IF mp = {} THEN KpiRecords(k) = <<>>
                ELSE /\ Len(KpiRecords(k)) = 1
                     /\ LET r == KpiRecords(k)[1]
                            last == LastPlace(mp)
                        IN  /\ r.value = _to_float(NUM_RE(LinesOfPage(last[1])[last[2]]))
                            /\ Len(r.pages) = Cardinality(mp)
                            /\ \A n \in DOMAIN r.pages : r.pages[n] = NthPlace(mp, n)[1]
        /\ (/\ {3, 5} \subseteq ScannedPages
            /\ Len(call.doc.pages) = 2
            /\ PageHolds(3, Sales1000) /\ PageHolds(5, Sales1200))
           => /\ KpiRecords(1)[1].value = FloatOfInt(1200)
              /\ KpiRecords(1)[1].pages = <<3, 5>>
C17_Witness ==
    /\ KpiReturned
    /\ call.doc.pages = <<[page |-> 5, text |-> Sales1200], [page |-> 3, text |-> Sales1000]>>
    /\ {3, 5} \subseteq ScannedPages
    /\ KpiRecords(1)[1].value = FloatOfInt(1200)
    /\ KpiRecords(1)[1].pages = <<3, 5>>

\* ------------------------------------------------------------ amount parser
AmountReturned(fn) == pc = "returned" /\ call.fn = fn
\* "(n)" for a literal n of digits, separators and a decimal point
Parenthesised(s) ==
    /\ Len(s) >= 3 /\ s[1] = "(" /\ s[Len(s)] = ")"
    /\ IsDigit(s[2])
    /\ \A i \in 2..(Len(s) - 1) : IsDigit(s[i]) \/ s[i] \in {",", "."}
Inner(s) == SubSeq(s, 2, Len(s) - 1)
\* the float nearest to the literal n times mult
ScaledLiteral(n, mult) ==
    LET t == Without(n, ",")
        dot == {i \in 1..Len(t) : t[i] = "."}
        f == IF dot = {} THEN 0 ELSE Len(t) - (CHOOSE i \in dot : TRUE)
        digits == Without(t, ".")
        whole == BMul(BOfDigits(digits), BOfInt(mult))
    IN  IF whole = <<>> THEN FZero
        ELSE IF f = 0 THEN FRound(whole, FALSE, 0)
        ELSE FQuotient(whole, 0, f)

\* C18: a parenthesised literal "(n)" parses to -n, "(500)" to -500, in the
\* amount parser of the capital structure (_amount_to_usd, and _best_amount
\* on a span) and in _to_float of the KPI extractor.
C18_ParenthesisedIsNegative ==
    /\ (AmountReturned("_amount_to_usd") /\ Parenthesised(call.num_str) /\ call.unit = None)
        => ret = FNeg(ScaledLiteral(Inner(call.num_str), 1))
    /\ (AmountReturned("_best_amount") /\ Parenthesised(call.text))
        => ret # None /\ ret.usd = FNeg(ScaledLiteral(Inner(call.text), 1))
    /\ (AmountReturned("_to_float") /\ Parenthesised(call.s))
        => ret = FNeg(ScaledLiteral(Inner(call.s), 1))

PlainLiteral(s) ==
    /\ s # <<>> /\ IsDigit(s[1])
    /\ \A i \in 1..Len(s) : IsDigit(s[i]) \/ s[i] \in {",", "."}
\* 1e9, 1e6 or 1e3 for the unit words in any letter case, 1 for no unit
ScaleOf(unit) ==
    IF unit = None THEN 1
    ELSE IF Lower(unit) \in {<<"b","i","l","l","i","o","n">>, <<"b","n">>} THEN 1000000000
    ELSE IF Lower(unit) \in {<<"m","i","l","l","i","o","n">>, <<"m","m">>, <<"m">>} THEN 1000000
    ELSE IF Lower(unit) \in {<<"t","h","o","u","s","a","n","d">>, <<"k">>} THEN 1000
    ELSE 0

\* C19: for every numeric literal n and every unit word in any letter case the
\* normalized value is exactly n times 1e9, 1e6 or 1e3, and n itself without a
\* unit; "$1,250,000" gives 1250000 and "$1.25 million" gives 1250000.
C19_UnitScalingExact ==
    /\ (AmountReturned("_amount_to_usd") /\ PlainLiteral(call.num_str) /\ ScaleOf(call.unit) # 0)
        => ret = ScaledLiteral(call.num_str, ScaleOf(call.unit))
    /\ (AmountReturned("_best_amount")
            /\ call.text \in { <<"$","1",",","2","5","0",",","0","0","0">>,
                               <<"$","1",".","2","5"," ","m","i","l","l","i","o","n">> })
        => ret # None /\ ret.usd = FloatOfInt(1250000)

Matches == RE_AMOUNT(call.text, 1)
Parsing == {i \in DOMAIN Matches : Candidate(Matches[i]).usd # None}
\* the text of a match: the sign ("$" when absent), the literal, the unit
MatchedText(m) ==
    (IF m.cur = None THEN <<"$">> ELSE m.cur) \o m.num
        \o (IF m.unit = None THEN <<>> ELSE <<" ">> \o m.unit)
\* n is an integer nearest to q * 10^places  (|n - q * 10^places| <= 1/2)
NearestScaled(n, q, places) ==
    LET k == IF q.e < 0 THEN 0 - q.e ELSE 0
        a == BShl(n, k + 1)
        b == BShl(BMul(BMulSmall(q.m, 2), BPow10(places)), q.e + k)
        h == BShl(<<1>>, k)
    IN  ~BLess(BAdd(b, h), a) /\ ~BLess(BAdd(a, h), b)
Unsigned(str, val) ==
    IF val.neg THEN SubSeq(str, 3, Len(str)) ELSE SubSeq(str, 2, Len(str))
\* body is "d..d.dd" and reads as q rounded to two decimals
TwoDecimalsOf(body, q) ==
    /\ Len(body) >= 4 /\ body[Len(body) - 2] = "."
    /\ AllDigits(Without(body, ".")) /\ Len(Without(body, ".")) = Len(body) - 1
    /\ NearestScaled(BOfDigits(Without(body, ".")), q, 2)
\* body is "d,ddd,ddd" and reads as q rounded to whole dollars
WholeGroupedOf(body, q) ==
    /\ body # <<>>
    /\ \A i \in 1..Len(body) :
          IF (Len(body) - i + 1) % 4 = 0 THEN body[i] = "," /\ i > 1
          ELSE IsDigit(body[i])
    /\ NearestScaled(BOfDigits(Without(body, ",")), q, 0)
\* str renders val: "$", the sign, then val / 1e9, 1e6 or 1e3 to two decimals
\* with the suffix B, M or K, or val in whole dollars below 1e3
Rendering(str, val) ==
    LET a == [val EXCEPT !.neg = FALSE]
        body == Unsigned(str, val)
        k == IF AtLeastPow10(val, 9) THEN 9 ELSE IF AtLeastPow10(val, 6) THEN 6
             ELSE IF AtLeastPow10(val, 3) THEN 3 ELSE 0
        suffix == IF k = 9 THEN "B" ELSE IF k = 6 THEN "M" ELSE "K"
    IN  /\ Len(str) >= 2 /\ str[1] = "$"
        /\ val.neg => str[2] = "-"
        /\ IF k = 0 THEN WholeGroupedOf(body, a)
           ELSE /\ body # <<>> /\ body[Len(body)] = suffix
                /\ TwoDecimalsOf(SubSeq(body, 1, Len(body) - 1), FDivPow10(a, k))
\* ret is the first parsing match with the largest value, None without one
FirstLargest ==
    IF Parsing = {} THEN ret = None
    ELSE /\ ret # None
         /\ \E i \in Parsing :
              /\ ret.usd = Candidate(Matches[i]).usd
              /\ ret.pretty = MatchedText(Matches[i])
              /\ \A j \in Parsing :
                    /\ ~FLess(ret.usd, Candidate(Matches[j]).usd)
                    /\ j < i => FLess(Candidate(Matches[j]).usd, ret.usd)

\* C20 as stated: _best_amount returns the match with the largest value
\* together with a rendering of that value (two decimals and the suffix B, M
\* or K from 1e9, 1e6, 1e3 on, plain below), and None when nothing matches.
C20_BestWithRendering ==
    AmountReturned("_best_amount")
        => /\ FirstLargest
           /\ ret # None => Rendering(ret.pretty, ret.usd)

\* C20 amended: _best_amount returns the first match with the largest value
\* together with the text of that match, and None when nothing matches; the
\* rendering with two decimals and B, M or K is what _format_human_usd
\* returns for a value.
C20_BestWithMatchedText ==
    /\ AmountReturned("_best_amount") => FirstLargest
    /\ AmountReturned("_format_human_usd") => Rendering(ret, call.val)

\* _best_amount has returned the earlier of two matches, the later one smaller
C20_Witness ==
    /\ AmountReturned("_best_amount") /\ ret # None
    /\ \E i, j \in Parsing :
          /\ i < j /\ ret.pretty = MatchedText(Matches[i])
          /\ FLess(Candidate(Matches[j]).usd, ret.usd)
          /\ ~Rendering(ret.pretty, ret.usd)

\* --------------------------------------------------- slicer (C22, C24, C25)
SpansReturned == pc = "returned" /\ call.fn = "spans_from_anchors"
\* the page a span is to end on before the clamp
SpanEnd(al, i, L) == IF i < Len(al) THEN al[i + 1].page - 1 ELSE L

\* C24: spans_from_anchors produces exactly one span per anchor, in anchor
\* order; span i starts on the page of anchor i and ends on the page before
\* anchor i + 1, the last span on the last page L, and a span that would end
\* before it starts ends on its start page instead.
C24_OneSpanPerAnchor ==
    SpansReturned =>
        /\ Len(ret) = Len(call.anchors)
        /\ \A i \in 1..Len(ret) :
              /\ ret[i].item = call.anchors[i].item
              /\ ret[i].start_page = call.anchors[i].page
              /\ ret[i].end_page =
                    IF SpanEnd(call.anchors, i, call.last_page) < call.anchors[i].page
                    THEN call.anchors[i].page
                    ELSE SpanEnd(call.anchors, i, call.last_page)

C24_Witness ==
    /\ SpansReturned /\ Len(ret) = 2
    /\ ret[1].end_page = call.anchors[2].page - 1 /\ ret[1].end_page > ret[1].start_page
    /\ call.last_page < ret[2].start_page /\ ret[2].end_page = ret[2].start_page

\* the input pages numbered n, and the one page_by_num keeps: the last
Numbered(n) == { k \in 1..Len(pages) : pages[k].page = n }
KeptPage(n) == pages[CHOOSE k \in Numbered(n) : \A j \in Numbered(n) : j <= k]
NonBlank(text) == \E i \in 1..Len(text) : ~IsBlankLine(text[i])
\* text without its leading and trailing blank lines
Stripped(text) ==
    LET I == { i \in 1..Len(text) : ~IsBlankLine(text[i]) } IN
    IF I = {} THEN <<>>
    ELSE SubSeq(text, CHOOSE i \in I : \A j \in I : i <= j,
                      CHOOSE i \in I : \A j \in I : j <= i)
\* len of a snippet [lines, cut]
SnippetLen(sn) ==
    TextLen(sn.lines)
        + (IF sn.cut = <<>> THEN 0
           ELSE sn.cut[2] + (IF sn.lines = <<>> THEN 0 ELSE 1))
\* sn is text[:n]
IsPrefix(sn, text, n) ==
    /\ Len(sn.lines) <= Len(text)
    /\ sn.lines = SubSeq(text, 1, Len(sn.lines))
    /\ sn.cut # <<>> =>
          /\ Len(sn.lines) < Len(text)
          /\ IF sn.cut[2] = 0 THEN sn.cut[1] = "" /\ sn.lines # <<>>
             ELSE /\ sn.cut[1] = text[Len(sn.lines) + 1]
                  /\ sn.cut[2] < LineLen(sn.cut[1])
    /\ SnippetLen(sn) = Min2(n, TextLen(text))
\* the content entries of a section refer to present, non-blank pages of its
\* range, one per such page number, in page order
ContentOfRange(s) ==
    /\ \A i \in 1..Len(s.content) :
          /\ Numbered(s.content[i].page) # {}
          /\ s.start_page <= s.content[i].page /\ s.content[i].page <= s.end_page
          /\ NonBlank(KeptPage(s.content[i].page).text)
    /\ \A i, j \in 1..Len(s.content) : i < j => s.content[i].page < s.content[j].page
    /\ \A n \in s.start_page..s.end_page :
          (Numbered(n) # {} /\ NonBlank(KeptPage(n).text))
              => \E i \in 1..Len(s.content) : s.content[i].page = n
SnippetOfFull(s) ==
    \A i \in 1..Len(s.content) :
        IsPrefix(s.content[i].snippet, s.content[i].full, 1200)

\* C25 as stated: with a non-empty anchor list every content entry refers to
\* a present, non-blank page of the section's range, one entry per such
\* page; its full is that page's text and its snippet the first 1200
\* characters of full.
C25_FullIsPageText ==
    (Sliced /\ anchors # <<>>) =>
        \A k \in 1..Len(sections) :
            /\ ContentOfRange(sections[k])
            /\ SnippetOfFull(sections[k])
            /\ \A i \in 1..Len(sections[k].content) :
                  sections[k].content[i].full = KeptPage(sections[k].content[i].page).text

\* C25 amended: as stated, with full being that page's text without its
\* leading and trailing white space.
C25_FullIsStrippedText ==
    (Sliced /\ anchors # <<>>) =>
        \A k \in 1..Len(sections) :
            /\ ContentOfRange(sections[k])
            /\ SnippetOfFull(sections[k])
            /\ \A i \in 1..Len(sections[k].content) :
                  sections[k].content[i].full
                      = Stripped(KeptPage(sections[k].content[i].page).text)

\* a section over pages 1..2 with an entry for the padded page 1 only, page
\* 2 being blank
C25_Witness ==
    /\ Sliced /\ anchors # <<>> /\ Len(sections) >= 1
    /\ sections[1].start_page = 1 /\ sections[1].end_page >= 2
    /\ Len(sections[1].content) = 1
    /\ Numbered(1) # {} /\ Numbered(2) # {}
    /\ KeptPage(1).text # sections[1].content[1].full
    /\ ~NonBlank(KeptPage(2).text)

\* C22: without anchors slice_sections returns exactly one section, titled
\* "Document", whose page range runs from the first page number to the last
\* and so covers every input page, and whose content has one entry for each
\* of the first 8 input pages (for each page when there are fewer), each
\* snippet at most 1200 characters long.
C22_DocumentFallback ==
    (Sliced /\ anchors = <<>>) =>
        /\ Len(sections) = 1
        /\ sections[1].title = <<"D","o","c","u","m","e","n","t">>
        /\ pages # <<>> => /\ sections[1].start_page = pages[1].page
                           /\ sections[1].end_page = pages[Len(pages)].page
        /\ \A k \in 1..Len(pages) :
              sections[1].start_page <= pages[k].page /\ pages[k].page <= sections[1].end_page
        /\ Len(sections[1].content) = (IF Len(pages) < 8 THEN Len(pages) ELSE 8)
        /\ \A i \in 1..Len(sections[1].content) :
              /\ sections[1].content[i].page = pages[i].page
              /\ SnippetLen(sections[1].content[i].snippet) <= 1200

\* nine pages, eight entries, one of them cut at 1200 characters
C22_Witness ==
    /\ Sliced /\ anchors = <<>>
    /\ Len(pages) = 9 /\ Len(sections[1].content) = 8
    /\ \E i \in 1..8 : /\ SnippetLen(sections[1].content[i].snippet) = 1200
                       /\ TextLen(pages[i].text) > 1200


\* ------------------------------------------------ skipped pages (C23)
HeadingLines(p) == { n \in 1..Len(p.text) : SEC_ITEM_RE(p.text[n]) # <<>> }
IndexPage(p) == Cardinality(HeadingLines(p)) >= 5
FrontToc(p) == p.page <= 50 /\ looks_like_toc(p.text)
LateToc(p) == p.page > 50 /\ looks_like_toc(p.text)
DistinctNumbers == \A k, l \in 1..Len(pages) : k # l => pages[k].page # pages[l].page

\* C23: every returned anchor is recorded from a heading on a page that has
\* fewer than 5 heading matches and is not a page numbered at most 50 that
\* matches the table-of-contents heuristics (with distinct page numbers: no
\* such page has the anchor's number); a page numbered above 50 that matches
\* the heuristics and has fewer than 5 heading matches is scanned: each of
\* its headings that is not on a dot-leader line has an anchor for its code,
\* on that page when no other page has a heading of the code.
C23_SkippedPagesLeaveNoAnchor ==
    Detected =>
        /\ \A i \in 1..Len(anchors) :
              \E k \in 1..Len(pages) :
                  /\ pages[k].page = anchors[i].page
                  /\ ~IndexPage(pages[k]) /\ ~FrontToc(pages[k])
                  /\ \E n \in HeadingLines(pages[k]) : anchors[i] = AnchorOf(<<k, n>>)
        /\ DistinctNumbers =>
              \A i \in 1..Len(anchors) : \A k \in 1..Len(pages) :
                  pages[k].page = anchors[i].page => ~IndexPage(pages[k]) /\ ~FrontToc(pages[k])
        /\ \A k \in 1..Len(pages) :
              (LateToc(pages[k]) /\ ~IndexPage(pages[k])) =>
                  \A n \in HeadingLines(pages[k]) :
                      pages[k].text[n] \notin LeaderLines =>
                          \E i \in 1..Len(anchors) :
                              /\ anchors[i].item = CodeOf(<<k, n>>)
                              /\ (\A l \in 1..Len(pages) : l # k =>
                                     \A m \in HeadingLines(pages[l]) : CodeOf(<<l, m>>) # CodeOf(<<k, n>>))
                                  => anchors[i].page = pages[k].page

\* an index page next to a table of contents behind the cutoff: the only
\* anchor is the one of the latter
C23_Witness ==
    /\ Detected /\ DistinctNumbers
    /\ Len(pages) = 2
    /\ \E k, l \in 1..2 :
          /\ IndexPage(pages[k])
          /\ LateToc(pages[l]) /\ ~IndexPage(pages[l])
          /\ Len(anchors) = 1 /\ anchors[1].page = pages[l].page


\* ------------------------------------------------ rescuer order (C26, C28)
AllThreePresent(secs) == \A c \in RescueCodes : TitleOfItem(secs, c)
NonDecreasingStart(secs) ==
    \A i, j \in 1..Len(secs) : i < j => secs[i].start_page <= secs[j].start_page

\* C26: the section list the rescue pass returns is in non-decreasing
\* start-page order, when it added a section and when it returned its input
\* because titles of Items 7, 7A and 8 were all present.
C26_RescuedInStartOrder ==
    Rescued => NonDecreasingStart(sections)

\* a rescued Item 7 placed before the Item 8 of the slicer
C26_WitnessAdded ==
    /\ Rescued
    /\ Len(sections) = 2
    /\ sections[1].title = Title7 /\ sections[2].title # Title7
    /\ sections[1].start_page < sections[2].start_page
\* the early return on a document whose three items are on two pages
C26_Witness ==
    /\ Rescued
    /\ AllThreePresent(sections)
    /\ \A k \in 1..Len(sections) : sections[k].title \notin {Title7, Title7A, Title8}
    /\ Len(sections) = 3 /\ sections[1].start_page < sections[3].start_page


\* the rescuer applied to the state's sections, with the same pages
SecondPass == _inject_synthetic_sections(sections, pages)
RescuedFor(secs, c) == { k \in 1..Len(secs) : secs[k].title = RescueTitle(c) }

\* C28: the rescuer applied to its own output, with the same pages, returns
\* that output; the second pass adds no section for an item the first pass
\* rescued.
C28_RescueIdempotent ==
    Rescued =>
        /\ SecondPass = sections
        /\ \A c \in RescueCodes :
              Cardinality(RescuedFor(SecondPass, c)) = Cardinality(RescuedFor(sections, c))

\* a first pass that rescued Item 7 and left another item wanted
C28_Witness ==
    /\ Rescued
    /\ Cardinality(RescuedFor(sections, <<"7">>)) = 1
    /\ \E c \in RescueCodes : ~TitleOfItem(sections, c)


\* ------------------------------------------------ risk output shape (C27)
\* the (page, sentence) pairs of the first Item 1A section, in text order
Item1APairs ==
    LET one_a == FirstSection(call.sections, <<"i","t","e","m"," ","1","a">>) IN
    IF one_a = <<>> THEN <<>> ELSE _sentences_with_pages(one_a.content)
HasItem1A ==
    \E k \in 1..Len(call.sections) :
        StartsWith(Lower(call.sections[k].title), <<"i","t","e","m"," ","1","a">>)
\* the sentences whose double exceeds 0.8, by position
Qualifying == { k \in 1..Len(Item1APairs) : FLess(RiskThreshold, RiskScore(Item1APairs[k].sent)) }
\* the doubles the code computes for the returned statements, in order
ReturnedScores == SubSeq([k \in 1..Len(ret) |-> RiskScore(ret[k].text)], 1, Len(ret))
\* the doubles of the sentences of the section that are not returned
LeftOutScores == {RiskScore(p.sent) : p \in Item1ASentences \ KeptRisks}
\* non-increasing scores, equal scores in ascending page order
InScoreOrder(scores) ==
    \A i, j \in 1..Len(scores) :
        i < j => \/ FLess(scores[j], scores[i])
                 \/ scores[i] = scores[j] /\ ret[i].page <= ret[j].page
NoneHigherLeftOut(scores, out) ==
    \A x \in out : \A k \in 1..Len(scores) : ~FLess(scores[k], x)
AllAbove(scores) == \A k \in 1..Len(scores) : FLess(RiskThreshold, scores[k])

\* C27: the risk extractor returns nothing when no section title starts with
\* "Item 1A"; otherwise at most 10 statements, each a sentence of the Item 1A
\* section scoring above 0.8, in non-increasing score order with equal scores
\* in ascending page order, and no sentence left out scores higher than one
\* that is returned; a score is the double the code computes.
C27_RiskOutputShape ==
    RiskReturned =>
        /\ ~HasItem1A => ret = <<>>
        /\ Len(ret) <= 10
        /\ \A k \in 1..Len(ret) :
              [page |-> ret[k].page, sent |-> ret[k].text] \in Item1ASentences
        /\ AllAbove(ReturnedScores)
        /\ InScoreOrder(ReturnedScores)
        /\ NoneHigherLeftOut(ReturnedScores, LeftOutScores)

\* twelve qualifying sentences on two pages: ten are returned, the two left
\* out score lowest
C27_Witness ==
    /\ RiskReturned /\ HasItem1A
    /\ Cardinality(Qualifying) > 10
    /\ Len(ret) = 10
    /\ Item1ASentences \ KeptRisks # {}
    /\ \E i, j \in 1..10 : i < j /\ ret[i].page > ret[j].page
    /\ \E i, j \in 1..10 : /\ i < j /\ ret[i].page < ret[j].page
                            /\ Score200(ret[i].text) = Score200(ret[j].text)


\* ------------------------------------------------ progress reporting (C29)
Calls == progress_callback.calls
Reporting == progress_callback.given
\* the calls so far are for the first sections of the list, in list order,
\* with non-decreasing values, and all of them made before the base analysis
\* and every extractor stage
InListOrder ==
    /\ pc \in {"slice", "rescue"} => Calls = <<>>
    /\ pc = "progress" => Len(Calls) < Len(sections) /\ analysis = NotYet /\ ran = {}
    /\ pc \in {"base", "extract", "done"} =>
          Len(Calls) = Len(sections) /\ Calls[Len(Calls)].progress = 100
    /\ \A i \in 1..Len(Calls) : Calls[i].section = sections[i].title
    /\ \A i \in 1..(Len(Calls) - 1) : Calls[i].progress <= Calls[i + 1].progress
OnceForNonPdf ==
    /\ pc = "start" => Calls = <<>>
    /\ pc = "done" => Len(Calls) = 1 /\ Calls[1].progress = 100

\* C29 as stated: with a callback, a PDF input has one call per section of
\* the list the rescuer returned, in list order and before any extractor
\* stage, with non-decreasing progress values within 1..100 that end at 100;
\* an input that is no PDF has exactly one call, with progress 100.
C29_ProgressWithin1To100 ==
    Reporting =>
        IF IsPdfPath(path)
        THEN /\ InListOrder
             /\ \A i \in 1..Len(Calls) : Calls[i].progress \in 1..100
        ELSE OnceForNonPdf

\* C29 amended: the same, with progress values within 0..100, and within
\* 1..100 when the list has fewer than 200 sections.
C29_ProgressWithin0To100 ==
    Reporting =>
        IF IsPdfPath(path)
        THEN /\ InListOrder
             /\ \A i \in 1..Len(Calls) :
                   /\ Calls[i].progress \in 0..100
                   /\ Len(sections) < 200 => Calls[i].progress >= 1
        ELSE OnceForNonPdf

\* a parse of 200 sections or more has returned: the first call had progress 0
C29_Witness ==
    /\ Reporting /\ IsPdfPath(path)
    /\ pc = "done" /\ ran = Extractors
    /\ Len(sections) >= 200
    /\ Len(Calls) = Len(sections)
    /\ Calls[1].progress = 0 /\ Calls[2].progress = 1
    /\ Calls[1].section # Calls[2].section

\* ---- C21
\* the page handed to the extractor and its six lines
TableCalled == pc = "returned" /\ call.fn = "extract_tables_from_pages"
TableLines == SplitLines(call.pages[1].text)
\* the words of a line: blanks of any kind separate them, soft hyphens vanish
UnBlanked(line) ==
    [i \in 1..Len(line) |-> IF line[i] \in Blanks \cup NbspLike THEN " " ELSE line[i]]
LineWords(line) ==
    SelectSeq(Split(UnBlanked(Without(line, "SHY")), " "), LAMBDA w : w # <<>>)
\* one whole numeric token
NumericLooking(w) == NumTokenEnd(w, 1) = Len(w) + 1
DigitFree(w) == \A i \in 1..Len(w) : ~IsDigit(w[i])
\* a label followed by two numeric-looking columns
LabelAndTwo(ws) ==
    /\ Len(ws) >= 3
    /\ NumericLooking(ws[Len(ws) - 1]) /\ NumericLooking(ws[Len(ws)])
    /\ \A k \in 1..(Len(ws) - 2) : DigitFree(ws[k])
\* the three cells of such a line
CellsOf(ws) ==
    << Join(SubSeq(ws, 1, Len(ws) - 2), <<" ">>), ws[Len(ws) - 1], ws[Len(ws)] >>
\* the two numbers read as numbers
TwoNumbers(ws) == _is_numeric_cell(ws[Len(ws) - 1]) /\ _is_numeric_cell(ws[Len(ws)])
DataLine(k) == LineWords(TableLines[2 + k])
HeaderLine(k) == LineWords(TableLines[k])
\* the page passes the gate and its last four lines are label and two numbers
TablePageGiven ==
    /\ TableCalled
    /\ _TABLE_GATE_text(_normalize_text(call.pages[1].text))
    /\ Len(TableLines) = 2 + 4
    /\ \A k \in 1..4 : LabelAndTwo(DataLine(k))
\* one block, with four rows of three columns
OneBlockOfFour ==
    /\ Len(ret) = 1
    /\ Len(ret[1].rows) = 4
    /\ \A k \in 1..4 : Len(ret[1].rows[k]) = 3
\* Claim C21 as stated: a page that passes the gate and holds two header
\* lines and then four lines of a label and two numeric-looking columns
\* gives exactly one block, its header the column-wise merge of the two
\* header lines, its body four rows of three columns.
C21_OneBlockForAnyHeader ==
    TablePageGiven =>
        /\ OneBlockOfFour
        /\ ret[1].header = MergedHeader(_split_cols(_normalize_text(TableLines[1])),
                                        _split_cols(_normalize_text(TableLines[2])))
\* both header lines are a label and two numeric tokens, one of them holds a
\* period hint, the numbers of the data lines read as numbers, and no data
\* line repeats the cells of the line before it
PeriodHeaderGiven ==
    /\ TablePageGiven
    /\ LabelAndTwo(HeaderLine(1)) /\ LabelAndTwo(HeaderLine(2))
    /\ \E k \in 1..2 : _PERIOD_HINT(Join(CellsOf(HeaderLine(k)), <<" ">>))
    /\ \A k \in 1..4 : TwoNumbers(DataLine(k))
    /\ \A k \in 2..4 : CellsOf(DataLine(k)) # CellsOf(DataLine(k - 1))
\* Claim C21, amended: when moreover both header lines are a label and two
\* numeric tokens, one of them with a period hint, the numbers of the data
\* lines read as numbers and no data line repeats the one before it, the
\* extractor returns exactly one block, its header the cell-by-cell merge of
\* the two header lines and its body four rows of three columns.
C21_OneBlockUnderPeriodHeader ==
    PeriodHeaderGiven =>
        /\ OneBlockOfFour
        /\ ret[1].header = [j \in 1..3 |-> MergedCell(CellsOf(HeaderLine(1))[j],
                                                      CellsOf(HeaderLine(2))[j])]
\* such a page, its hint inside the word Summary, gives its block
C21_Witness ==
    /\ PeriodHeaderGiven
    /\ OneBlockOfFour
    /\ ret[1].header = <<<<"B","a","l","a","n","c","e"," ","S","h","e","e","t"," ","S","u","m","m","a","r","y">>, <<"1"," ","3">>, <<"2"," ","4">>>>
    /\ ret[1].rows[4] = <<<<"D","e","b","t">>, <<"(","$","1",",","2","3","4",")">>, <<"-","5",".","5","%">>>>

\* ---- C30
\* every request has been answered
Completed == requests # <<>> /\ \A r \in DOMAIN requests : requests[r].pc = "done"
\* Claim C30: once the upload, generate-report and export-report requests
\* have completed, under any interleaving and with every parse free to
\* succeed or fail, every document id with a stored result in RESULTS has
\* the status "ready" in DOCS, and a document whose status is "error" has an
\* error_msg and no stored result.
C30_StoresAgree ==
    Completed =>
        /\ \A d \in DOMAIN RESULTS : DOCS[d].status = "ready"
        /\ \A d \in DOMAIN DOCS :
              DOCS[d].status = "error" => (DOCS[d].error_msg # None /\ d \notin DOMAIN RESULTS)

====
